---- MODULE Spec2Model ----
(***************************************************************************)
(* Model of the QLT tree-reduction engine of COMPOSE/CEDR                  *)
(* (src/cedr/cedr_qlt.cpp): the analysis of a globally agreed binary tree  *)
(* into per-rank NodeSets, and the level-scheduled point-to-point          *)
(* protocols driven by them.                                               *)
(*                                                                         *)
(* A tree is a sequence of tree::Node records in depth-first pre-order;    *)
(* a node is named by its index in that sequence (the root is node 1) and  *)
(* the null pointer is 0.  A NodeSets::Node is named by the index of the   *)
(* tree node whose 'reserved' field points at it.                          *)
(***************************************************************************)
EXTENDS Integers, Sequences, FiniteSets, TLC

\* ------------------------------------------------------------------------
\* Bounds of the model.
NRanks == 2
MaxLeaves == 4

Ranks == 0..(NRanks - 1)
Null == 0

Max(a, b) == IF a >= b THEN a ELSE b
Min(a, b) == IF a <= b THEN a ELSE b

RECURSIVE SumSeq(_)
SumSeq(s) == IF s = <<>> THEN 0 ELSE Head(s) + SumSeq(Tail(s))

Range(s) == {s[i] : i \in DOMAIN s}

\* ------------------------------------------------------------------------
\* Input trees.  A shape is <<>> (a leaf) or <<left, right>>.
RECURSIVE Shapes(_)
Shapes(n) ==
  IF n = 1 THEN {<<>>}
  ELSE UNION {{<<l, r>> : l \in Shapes(k), r \in Shapes(n - k)} : k \in 1..(n - 1)}

\* tree::Node as the caller builds it: interior nodes carry no rank and no
\* cellidx yet (init_tree assigns them).
TreeNode(rank, nkids, kids, parent, cellidx) ==
  [rank |-> rank, nkids |-> nkids, kids |-> kids, parent |-> parent,
   cellidx |-> cellidx]

\* The nodes of shape sh in pre-order, the first one getting index base.
\* Leaves are left without rank and cellidx; SetLeaves fills them in.
RECURSIVE Flat(_, _, _)
Flat(sh, base, parent) ==
  IF sh = <<>> THEN << TreeNode(-1, 0, <<>>, parent, -1) >>
  ELSE LET L == Flat(sh[1], base + 1, base)
           R == Flat(sh[2], base + 1 + Len(L), base)
       IN  << TreeNode(-1, 2, <<base + 1, base + 1 + Len(L)>>, parent, -1) >>
           \o L \o R

LeafIdxs(t) == {i \in DOMAIN t : t[i].nkids = 0}

\* The leaves of t in depth-first order (pre-order indices ascend with it).
LeafSeq(t) == SortSeq(SelectSeq([i \in DOMAIN t |-> i], LAMBDA i : t[i].nkids = 0),
                      LAMBDA a, b : a < b)

\* k-th leaf in depth-first order gets rank rk[k] and cellidx ci[k].
SetLeaves(t, rk, ci) ==
  LET ls == LeafSeq(t)
      pos(i) == CHOOSE k \in DOMAIN ls : ls[k] = i
  IN  [i \in DOMAIN t |->
         IF t[i].nkids = 0
         THEN [t[i] EXCEPT !.rank = rk[pos(i)], !.cellidx = ci[pos(i)]]
         ELSE t[i]]

\* cedr_assert(condition): whether the program goes on.
cedr_assert(condition) == condition

\* init_tree giving an interior node the rank of its last kid.
RECURSIVE init_tree_lastkid(_, _, _)
init_tree_lastkid(t, i, id) ==
  LET node == t[i] IN
  IF node.nkids = 0
  THEN [t |-> t, id |-> id, depth |-> 1,
        ok |-> ~(node.cellidx < 0 \/ node.cellidx >= id)]
  ELSE LET r0 == init_tree_lastkid(t, node.kids[1], id)
           r1 == IF node.nkids >= 2 THEN init_tree_lastkid(r0.t, node.kids[2], r0.id)
                 ELSE [t |-> r0.t, id |-> r0.id, depth |-> 0, ok |-> TRUE]
           t2 == [r1.t EXCEPT ![i].rank = r1.t[node.kids[node.nkids]].rank,
                              ![i].cellidx = r1.id]
       IN  [t |-> t2, id |-> r1.id + 1,
            depth |-> Max(r0.depth, r1.depth) + 1,
            ok |-> /\ r0.ok /\ r1.ok
                   /\ \A k \in 1..node.nkids :
                        cedr_assert(t[node.kids[k]].parent = i)]

\* ------------------------------------------------------------------------
\* init_tree: assign rank and cellidx to interior nodes (post-order), check
\* the kids' parent pointers and the leaves' cellidx.  Returns the tree,
\* the id counter, the depth and whether every check passed.
RECURSIVE init_tree(_, _, _)
init_tree(t, i, id) ==
  LET node == t[i] IN
  IF node.nkids = 0
  THEN [t |-> t, id |-> id, depth |-> 1,
        ok |-> ~(node.cellidx < 0 \/ node.cellidx >= id)]
  ELSE LET r0 == init_tree(t, node.kids[1], id)
           r1 == IF node.nkids >= 2 THEN init_tree(r0.t, node.kids[2], r0.id)
                 ELSE [t |-> r0.t, id |-> r0.id, depth |-> 0, ok |-> TRUE]
           t2 == [r1.t EXCEPT ![i].rank = r1.t[node.kids[1]].rank,
                              ![i].cellidx = r1.id]
       IN  [t |-> t2, id |-> r1.id + 1,
            depth |-> Max(r0.depth, r1.depth) + 1,
            ok |-> /\ r0.ok /\ r1.ok
                   /\ \A k \in 1..node.nkids :
                        cedr_assert(t[node.kids[k]].parent = i)]

\* ------------------------------------------------------------------------
\* NodeSets::Node.
NSNode(rank, id) ==
  [rank |-> rank, id |-> id, parent |-> Null, nkids |-> 0, kids |-> <<>>,
   offset |-> -1]

\* NodeSets::alloc: a fresh node for tree node i; mem records the order of
\* allocation.
alloc(ns, i, rank, id) ==
  [ns EXCEPT !.nodes = (i :> NSNode(rank, id)) @@ @, !.mem = Append(@, i)]

\* owned_kids that does not fill in the parent pointer of a kid already
\* materialised.
RECURSIVE owned_kids_nolink(_, _, _, _, _)
owned_kids_nolink(ns, t, my_rank, i, k) ==
  IF k > t[i].nkids THEN ns
  ELSE LET kid == t[i].kids[k] IN
       IF kid \notin DOMAIN ns.nodes
       THEN LET a == alloc(ns, kid, t[kid].rank, t[kid].cellidx)
                b == [a EXCEPT !.nodes[i].kids = Append(@, kid),
                               !.ok = @ /\ t[kid].rank # my_rank]
            IN  owned_kids_nolink(b, t, my_rank, i, k + 1)
       ELSE owned_kids_nolink([ns EXCEPT !.nodes[i].kids = Append(@, kid)],
                              t, my_rank, i, k + 1)

\* The loop over the kids of an owned node (lines 229-249), kid k onward.
RECURSIVE owned_kids(_, _, _, _, _)
owned_kids(ns, t, my_rank, i, k) ==
  IF k > t[i].nkids THEN ns
  ELSE LET kid == t[i].kids[k] IN
       IF kid \notin DOMAIN ns.nodes
       THEN \* Not materialised: a kid on another rank, needed for irecv.
            LET a == alloc(ns, kid, t[kid].rank, t[kid].cellidx)
                b == [a EXCEPT !.nodes[i].kids = Append(@, kid),
                               !.ok = @ /\ t[kid].rank # my_rank]
            IN  owned_kids(b, t, my_rank, i, k + 1)
       ELSE LET b == [ns EXCEPT !.nodes[i].kids = Append(@, kid),
                                !.nodes[kid].parent = i]
            IN  owned_kids(b, t, my_rank, i, k + 1)

\* The loop over the kids of a materialised node that is not owned (lines
\* 253-260).
RECURSIVE unowned_kids(_, _, _, _, _)
unowned_kids(ns, t, my_rank, i, k) ==
  IF k > t[i].nkids THEN ns
  ELSE LET kid == t[i].kids[k] IN
       IF kid \in DOMAIN ns.nodes /\ t[kid].rank = my_rank
       THEN LET b == [ns EXCEPT !.nodes[i].kids = Append(@, kid),
                                !.nodes[i].nkids = @ + 1,
                                !.nodes[kid].parent = i]
            IN  unowned_kids(b, t, my_rank, i, k + 1)
       ELSE unowned_kids(ns, t, my_rank, i, k + 1)

\* level_schedule_and_collect putting an owned node at the front of its level
\* (push_front for push_back).
RECURSIVE level_schedule_and_collect_front(_, _, _, _)
level_schedule_and_collect_front(ns, t, my_rank, i) ==
  IF ~ns.ok THEN [ns |-> ns, level |-> -1, need |-> FALSE] ELSE
  LET node == t[i]
      r0 == IF node.nkids >= 1
            THEN level_schedule_and_collect_front(ns, t, my_rank, node.kids[1])
            ELSE [ns |-> ns, level |-> -1, need |-> FALSE]
      r1 == IF node.nkids >= 2
            THEN level_schedule_and_collect_front(r0.ns, t, my_rank, node.kids[2])
            ELSE [ns |-> r0.ns, level |-> -1, need |-> FALSE]
      level == Max(r0.level, r1.level) + 1
      make_ns_node == r0.need \/ r1.need
      node_is_owned == node.rank = my_rank
      s0 == [r1.ns EXCEPT !.ok = @ /\ node.rank # -1]
  IN  IF node_is_owned \/ make_ns_node
      THEN LET s1 == [s0 EXCEPT !.ok = @ /\ i \notin DOMAIN s0.nodes]
               s2 == alloc(s1, i, node.rank, node.cellidx)
               s3 == IF node_is_owned
                     THEN [s2 EXCEPT !.levels[level + 1].nodes = <<i>> \o @,
                                     !.nodes[i].nkids = node.nkids]
                     ELSE s2
               s4 == IF node_is_owned
                     THEN owned_kids(s3, t, my_rank, i, 1)
                     ELSE unowned_kids(s3, t, my_rank, i, 1)
           IN  [ns |-> s4, level |-> level, need |-> node_is_owned]
      ELSE [ns |-> s0, level |-> level, need |-> node_is_owned]

\* level_schedule_and_collect on node i.  Returns the NodeSets, the node's
\* level and whether the node needs its parent materialised.  Nothing is
\* done once an assertion has failed.
RECURSIVE level_schedule_and_collect(_, _, _, _)
level_schedule_and_collect(ns, t, my_rank, i) ==
  IF ~ns.ok THEN [ns |-> ns, level |-> -1, need |-> FALSE] ELSE
  LET node == t[i]
      r0 == IF node.nkids >= 1
            THEN level_schedule_and_collect(ns, t, my_rank, node.kids[1])
            ELSE [ns |-> ns, level |-> -1, need |-> FALSE]
      r1 == IF node.nkids >= 2
            THEN level_schedule_and_collect(r0.ns, t, my_rank, node.kids[2])
            ELSE [ns |-> r0.ns, level |-> -1, need |-> FALSE]
      level == Max(r0.level, r1.level) + 1
      make_ns_node == r0.need \/ r1.need
      node_is_owned == node.rank = my_rank
      s0 == [r1.ns EXCEPT !.ok = @ /\ node.rank # -1]
  IN  IF node_is_owned \/ make_ns_node
      THEN LET s1 == [s0 EXCEPT !.ok = @ /\ i \notin DOMAIN s0.nodes]
               s2 == alloc(s1, i, node.rank, node.cellidx)
               s3 == IF node_is_owned
                     THEN [s2 EXCEPT !.levels[level + 1].nodes = Append(@, i),
                                     !.nodes[i].nkids = node.nkids]
                     ELSE s2
               s4 == IF node_is_owned
                     THEN owned_kids(s3, t, my_rank, i, 1)
                     ELSE unowned_kids(s3, t, my_rank, i, 1)
           IN  [ns |-> s4, level |-> level, need |-> node_is_owned]
      ELSE [ns |-> s0, level |-> level, need |-> node_is_owned]

\* NodeSets::Level with no nodes and no messages.
EmptyLevel == [nodes |-> <<>>, me |-> <<>>, kids |-> <<>>]

\* consolidate with its test inverted: the empty levels are the ones kept.
consolidate_inverted(ns) ==
  [ns EXCEPT !.levels = SelectSeq(@, LAMBDA lvl : lvl.nodes = <<>>)]

\* consolidate leaving the levels in the opposite order.
consolidate_reversed(ns) ==
  [ns EXCEPT !.levels = LET kept == SelectSeq(@, LAMBDA lvl : lvl.nodes # <<>>)
                        IN  [k \in DOMAIN kept |-> kept[Len(kept) + 1 - k]]]

\* consolidate that removes nothing.
consolidate_keep(ns) == ns

\* consolidate: squeeze the empty levels out.
consolidate(ns) ==
  [ns EXCEPT !.levels = SelectSeq(@, LAMBDA lvl : lvl.nodes # <<>>)]

\* ------------------------------------------------------------------------
\* The order of two NodeSets::Node pointers.  Nodes are allocated one by one
\* from the heap (std::list::push_front), so the order of their addresses is
\* the allocator's: heap "up" hands out ascending addresses, "down"
\* descending ones.
Addr(ns, n, hp) ==
  LET pos == CHOOSE k \in DOMAIN ns.mem : ns.mem[k] = n
  IN  IF hp = "up" THEN pos ELSE 0 - pos

\* operator< of RankNode = std::pair<Int, NodeSets::Node*>: by rank, then by
\* pointer.
RankNodeLess(ns, hp, a, b) ==
  \/ a[1] < b[1]
  \/ a[1] = b[1] /\ Addr(ns, a[2], hp) < Addr(ns, b[2], hp)

\* MPIMetaData of a window that starts one slot late.
MPIMetaData_late(rank, offset, size) ==
  [rank |-> rank, offset |-> offset + 1, size |-> size]

\* NodeSets::Level::MPIMetaData.
MPIMetaData(rank, offset, size) == [rank |-> rank, offset |-> offset, size |-> size]

\* The walk giving a local node a fresh offset also when it already has one
\* (the test of line 298 dropped).
RECURSIVE offsets_walk_unguarded(_, _, _, _, _)
offsets_walk_unguarded(ns, rns, k, mmds, prev_rank) ==
  IF k > Len(rns) THEN [ns |-> ns, mmds |-> mmds]
  ELSE LET rank == rns[k][1]
           n == rns[k][2]
       IN  IF rank = -1
           THEN offsets_walk_unguarded([ns EXCEPT !.nodes[n].offset = ns.nslots,
                                                  !.nslots = @ + 1],
                                       rns, k + 1, mmds, prev_rank)
           ELSE LET m1 == IF rank # prev_rank
                          THEN Append(mmds, MPIMetaData(rank, ns.nslots, 0))
                          ELSE mmds
                    m2 == [m1 EXCEPT ![Len(m1)].size = @ + 1]
                IN  offsets_walk_unguarded(
                      [ns EXCEPT !.nodes[n].offset = ns.nslots,
                                 !.nslots = @ + 1,
                                 !.ok = @ /\ (rank # prev_rank => rank > prev_rank)],
                      rns, k + 1, m2, rank)

\* The walk over the sorted rns (lines 294-313), entry k onward; ns.nslots is
\* the running offset.
RECURSIVE offsets_walk(_, _, _, _, _)
offsets_walk(ns, rns, k, mmds, prev_rank) ==
  IF k > Len(rns) THEN [ns |-> ns, mmds |-> mmds]
  ELSE LET rank == rns[k][1]
           n == rns[k][2]
       IN  IF rank = -1
           THEN IF ns.nodes[n].offset = -1
                THEN offsets_walk([ns EXCEPT !.nodes[n].offset = ns.nslots,
                                             !.nslots = @ + 1],
                                  rns, k + 1, mmds, prev_rank)
                ELSE offsets_walk(ns, rns, k + 1, mmds, prev_rank)
           ELSE LET m1 == IF rank # prev_rank
                          THEN Append(mmds, MPIMetaData(rank, ns.nslots, 0))
                          ELSE mmds
                    m2 == [m1 EXCEPT ![Len(m1)].size = @ + 1]
                IN  offsets_walk([ns EXCEPT !.nodes[n].offset = ns.nslots,
                                            !.nslots = @ + 1,
                                            !.ok = @ /\ (rank # prev_rank => rank > prev_rank)],
                                 rns, k + 1, m2, rank)

\* init_offsets leaving the entries of my rank as they are (the loop of lines
\* 285-287 dropped).
init_offsets_keeprank(ns, my_rank, rns, hp) ==
  LET sorted == SortSeq(rns, LAMBDA a, b : RankNodeLess(ns, hp, a, b))
  IN  offsets_walk(ns, sorted, 1, <<>>, -1)

\* init_offsets: local entries first, then one window per peer rank.
init_offsets(ns, my_rank, rns, hp) ==
  LET local == [k \in DOMAIN rns |->
                  IF rns[k][1] = my_rank THEN <<-1, rns[k][2]>> ELSE rns[k]]
      sorted == SortSeq(local, LAMBDA a, b : RankNodeLess(ns, hp, a, b))
  IN  offsets_walk(ns, sorted, 1, <<>>, -1)

\* The kids of the nodes of a level, in order (lines 332-336).
RECURSIVE kids_list(_, _, _)
kids_list(ns, nodes, k) ==
  IF k > Len(nodes) THEN <<>>
  ELSE [j \in 1..ns.nodes[nodes[k]].nkids |->
          << ns.nodes[ns.nodes[nodes[k]].kids[j]].rank, ns.nodes[nodes[k]].kids[j] >>]
       \o kids_list(ns, nodes, k + 1)

\* init_comm, level il onward.
RECURSIVE init_comm_levels(_, _, _, _)
init_comm_levels(ns, my_rank, hp, il) ==
  IF il > Len(ns.levels) THEN ns
  ELSE LET nodes == ns.levels[il].nodes
           me == [k \in DOMAIN nodes |->
                    << IF ns.nodes[nodes[k]].parent # Null
                       THEN ns.nodes[ns.nodes[nodes[k]].parent].rank
                       ELSE my_rank,
                       nodes[k] >>]
           kids == kids_list(ns, nodes, 1)
           om == init_offsets(ns, my_rank, me, hp)
           ok == init_offsets(om.ns, my_rank, kids, hp)
           ns2 == [ok.ns EXCEPT !.levels[il].me = om.mmds, !.levels[il].kids = ok.mmds]
       IN  init_comm_levels(ns2, my_rank, hp, il + 1)

init_comm(ns, my_rank, hp) ==
  init_comm_levels([ns EXCEPT !.nslots = 0], my_rank, hp, 1)

\* analyze without the test of the root's parent pointer.
analyze_rooted(my_rank, ncells_, t, hp) ==
  LET it == init_tree(t, 1, ncells_)
      ns0 == [nodes |-> <<>>, levels |-> [k \in 1..it.depth |-> EmptyLevel],
              nslots |-> 0, mem |-> <<>>, ok |-> it.ok]
      ns1 == level_schedule_and_collect(ns0, it.t, my_rank, 1).ns
  IN  init_comm(consolidate(ns1), my_rank, hp)

\* analyze starting the id counter one above ncells.
analyze_idshift(my_rank, ncells_, t, hp) ==
  LET it == init_tree(t, 1, ncells_ + 1)
      ns0 == [nodes |-> <<>>, levels |-> [k \in 1..it.depth |-> EmptyLevel],
              nslots |-> 0, mem |-> <<>>,
              ok |-> cedr_assert(t[1].parent = Null) /\ it.ok]
      ns1 == level_schedule_and_collect(ns0, it.t, my_rank, 1).ns
  IN  init_comm(consolidate(ns1), my_rank, hp)

\* analyze: the NodeSets of rank my_rank for tree t.  'ok' is FALSE when an
\* assertion of the analysis fails.
analyze(my_rank, ncells_, t, hp) ==
  LET it == init_tree(t, 1, ncells_)
      ns0 == [nodes |-> <<>>, levels |-> [k \in 1..it.depth |-> EmptyLevel],
              nslots |-> 0, mem |-> <<>>,
              ok |-> cedr_assert(t[1].parent = Null) /\ it.ok]
      ns1 == level_schedule_and_collect(ns0, it.t, my_rank, 1).ns
  IN  init_comm(consolidate(ns1), my_rank, hp)

RECURSIVE Concat(_)
Concat(ss) == IF ss = <<>> THEN <<>> ELSE Head(ss) \o Concat(Tail(ss))

\* The nodes of all levels, level by level.
LevelNodes(ns) == Concat([il \in DOMAIN ns.levels |-> ns.levels[il].nodes])

\* The offsets check_comm counts (lines 371-378): for each node of each level
\* its own offset, then those of its kids on other ranks.
comm_offsets(ns) ==
  LET ln == LevelNodes(ns)
  IN  Concat([k \in DOMAIN ln |->
        LET n == ns.nodes[ln[k]]
            far == SelectSeq(n.kids, LAMBDA kid : ns.nodes[kid].rank # n.rank)
        IN  <<n.offset>> \o [j \in DOMAIN far |-> ns.nodes[far[j]].offset]])

\* check_comm: the number of slots not used exactly once.  'ok' is FALSE when
\* the assertion fails or the count is indexed out of [0, nslots).
check_comm(ns) ==
  LET offs == comm_offsets(ns)
      count(o) == Cardinality({k \in DOMAIN offs : offs[k] = o})
  IN  [nerr |-> Cardinality({o \in 0..(ns.nslots - 1) : count(o) # 1}),
       ok |-> \A k \in DOMAIN offs : offs[k] >= 0 /\ offs[k] < ns.nslots]

\* check_leaf_nodes up to all_reduce (lines 388-399): the number of leaves of
\* this rank; 'ok' is FALSE when an assertion fails.
check_leaf_nodes(ns, ncells_) ==
  LET ok0 == ns.levels # <<>> /\ ns.levels[1].nodes # <<>>
      leaves == IF ok0 THEN ns.levels[1].nodes ELSE <<>>
      my_nleaves == Len(leaves)
  IN  [my_nleaves |-> my_nleaves,
       ok |-> /\ ok0
              /\ \A k \in DOMAIN leaves :
                   /\ ns.nodes[leaves[k]].nkids = 0
                   /\ ns.nodes[leaves[k]].offset < my_nleaves
                   /\ ns.nodes[leaves[k]].id < ncells_]

\* ------------------------------------------------------------------------
\* The transport.  Messages between two ranks carry one tag (mpitag) and are
\* matched in order: chan[src][dst] holds the messages sent and not yet
\* received, oldest first.  A rank waits for every receive right after
\* posting it, so at most one receive per peer is pending at a time.
\*
\* MPI_Request: kind "null" (never set), "isend" or "irecv"; 'arrived' says a
\* receive has got its message; mid names the message of a send; 'waited' says
\* a waitall has completed it.
NullReq ==
  [kind |-> "null", peer |-> -1, b |-> "none", start |-> 0, len |-> 0,
   mid |-> <<>>, arrived |-> FALSE, waited |-> FALSE]

\* Buffer s with the values vals written from (0-based) position start.
WriteAt(s, start, vals) ==
  [k \in DOMAIN s |->
     IF k > start /\ k <= start + Len(vals) THEN vals[k - start] ELSE s[k]]

\* A message longer than the receive buffer is MPI_ERR_TRUNCATE, which is
\* fatal; a shorter one fills the front of the buffer.
deliver(w, dst, b, start, len, vals) ==
  IF Len(vals) > len
  THEN [w EXCEPT !.mpi_err = @ \cup {dst}]
  ELSE [w EXCEPT !.buf[dst][b] = WriteAt(@, start, vals)]

\* mpi::irecv by rank r from src into buf b at [start, start + len), the
\* request going to slot i of list lst ("me" or "kids") of level il.
irecv(w, r, b, start, len, src, lst, il, i) ==
  LET rq == [NullReq EXCEPT !.kind = "irecv", !.peer = src, !.b = b,
                            !.start = start, !.len = len]
  IN  IF w.chan[src][r] # <<>>
      THEN LET m == Head(w.chan[src][r])
               w1 == deliver(w, r, b, start, len, m.vals)
           IN  [w1 EXCEPT !.chan[src][r] = Tail(@),
                          !.req[r][lst][il][i] = [rq EXCEPT !.arrived = TRUE]]
      ELSE [w EXCEPT !.req[r][lst][il][i] = rq]

\* The pending receives of rank dst from rank src: <<lst, il, i>>.
Pending(w, dst, src) ==
  {x \in UNION {{<<lst, il, i>> : i \in DOMAIN w.req[dst][lst][il]} :
                  lst \in {"me", "kids"}, il \in DOMAIN w.req[dst]["me"]} :
     LET rq == w.req[dst][x[1]][x[2]][x[3]]
     IN  rq.kind = "irecv" /\ ~rq.arrived /\ rq.peer = src}

\* mpi::isend by rank r to dst of buf b at [start, start + len).
isend(w, r, b, start, len, dst, lst, il, i) ==
  LET vals == SubSeq(w.buf[r][b], start + 1, start + len)
      mid == <<b, lst, il, i>>
      rq == [NullReq EXCEPT !.kind = "isend", !.peer = dst, !.b = b,
                            !.start = start, !.len = len, !.mid = mid]
      w0 == [w EXCEPT !.req[r][lst][il][i] = rq]
      pend == Pending(w0, dst, r)
  IN  IF pend # {}
      THEN LET x == CHOOSE y \in pend : TRUE
               rr == w0.req[dst][x[1]][x[2]][x[3]]
               w1 == deliver(w0, dst, rr.b, rr.start, rr.len, vals)
           IN  [w1 EXCEPT !.req[dst][x[1]][x[2]][x[3]].arrived = TRUE]
      ELSE [w0 EXCEPT !.chan[r][dst] =
                        Append(@, [mid |-> mid, vals |-> vals, b |-> b,
                                   start |-> start, len |-> len])]

\* Whether request rq of rank r is complete, so that a wait on it returns: a
\* receive when its message has arrived; a send when its message has been
\* received or, with an eager transport, at once.
Complete(w, r, rq) ==
  CASE rq.kind = "irecv" -> rq.arrived
    [] rq.kind = "isend" ->
         \/ w.eager
         \/ \A k \in DOMAIN w.chan[r][rq.peer] : w.chan[r][rq.peer][k].mid # rq.mid
    [] OTHER -> TRUE

AllComplete(w, r, rqs) == \A k \in DOMAIN rqs : Complete(w, r, rqs[k])

\* mpi::waitall on a request array that is complete.
waitall(rqs) == [k \in DOMAIN rqs |-> [rqs[k] EXCEPT !.waited = TRUE]]

\* irecv for each window of mmds (entry i onward) of buf b, W values a slot.
RECURSIVE post_irecvs(_, _, _, _, _, _, _, _)
post_irecvs(w, r, b, W, mmds, lst, il, i) ==
  IF i > Len(mmds) THEN w
  ELSE post_irecvs(irecv(w, r, b, mmds[i].offset * W, mmds[i].size * W,
                         mmds[i].rank, lst, il, i),
                   r, b, W, mmds, lst, il, i + 1)

\* isend for each window of mmds (entry i onward).
RECURSIVE post_isends(_, _, _, _, _, _, _, _)
post_isends(w, r, b, W, mmds, lst, il, i) ==
  IF i > Len(mmds) THEN w
  ELSE post_isends(isend(w, r, b, mmds[i].offset * W, mmds[i].size * W,
                         mmds[i].rank, lst, il, i),
                   r, b, W, mmds, lst, il, i + 1)

\* ------------------------------------------------------------------------
\* State.
VARIABLES
  tree,       \* the globally agreed tree, as the caller built it
  ncells,     \* its number of leaves
  heap,       \* heap[r]: the order of the addresses rank r's allocator hands out
  eager,      \* whether the transport buffers sends (else a send completes
              \* only when it is received)
  ns_,         \* ns_[r]: the NodeSets of rank r
  pc,         \* pc[r]: where rank r is: [ph, il]
  buf,        \* buf[r]: the buffers of rank r: data, l2r, r2l
  req,        \* req[r].me[il], req[r].kids[il]: me_req, kids_req of level il
  chan,       \* chan[src][dst]: messages in flight
  mpi_err,    \* the ranks at which the transport raised an error
  nerr,       \* nerr[r]: the error count of rank r's checks
  my_nleaves, \* my_nleaves[r]: rank r's contribution to all_reduce
  glbl_nleaves,
  tracers_,   \* the problem types the caller declares, in the caller's order
  rhom,       \* rhom[c + 1]: the caller's density of cell c
  gci2lci_,   \* gci2lci_[r]: QLT's map from global to local cell index
  mdb_,       \* mdb_[r]: the MetaDataBuilder; 'alive' is FALSE for a null mdb_
  md_,        \* md_[r]: the MetaData tables
  trial,      \* trial[r]: the trial of TestQLT::run rank r is in
  call,       \* the caller's last call of the declaration interface: its
              \* number, its argument and whether it threw
  bfb         \* bfb[r]: the BfbTreeAllReducer of rank r and its caller's
              \* send and recv arrays

\* The state of the QLT objects and of their caller.
qvars == <<tracers_, rhom, gci2lci_, mdb_, md_>>

\* The state of the callers that only some of the specifications move.
xvars == <<trial, call, bfb>>

vars == <<tree, ncells, heap, eager, ns_, pc, buf, req, chan, mpi_err, nerr,
          my_nleaves, glbl_nleaves, qvars, xvars>>

NoNS == [nodes |-> <<>>, levels |-> <<>>, nslots |-> 0, mem |-> <<>>, ok |-> TRUE]

At(ph, il) == [ph |-> ph, il |-> il]

\* The transport's view of the state.
World == [buf |-> buf, chan |-> chan, req |-> req, mpi_err |-> mpi_err,
          eager |-> eager]

Running == mpi_err = {} /\ \A r \in Ranks : pc[r].ph # "abort"

NLevels(r) == Len(ns_[r].levels)

\* The trees with n leaves whose leaves are numbered in depth-first order (as
\* make_tree numbers them) and spread over all ranks.
Trees(n) ==
  {SetLeaves(Flat(sh, 1, Null), rk, [k \in 1..n |-> k - 1]) :
     sh \in Shapes(n),
     rk \in {f \in [1..n -> Ranks] : \A r \in Ranks : \E k \in 1..n : f[k] = r}}

\* No call made yet.
NoCall == [n |-> 0, mask |-> 0, threw |-> FALSE]

\* No BfbTreeAllReducer constructed yet.
NoBfb == [nlocal_ |-> 0, nfield_ |-> 0, bd_ |-> <<>>, send |-> <<>>, recv |-> <<>>]

\* MetaData before MetaData::init: no tracer, empty tables.
NoMD ==
  [trcr2prob |-> <<>>, bidx2trcr |-> <<>>, trcr2bidx |-> <<>>,
   trcr2bl2r |-> <<>>, trcr2br2l |-> <<>>,
   prob2trcrptr |-> <<0, 0, 0, 0, 0>>, prob2bl2r |-> <<0, 0, 0, 0, 0>>,
   prob2br2l |-> <<0, 0, 0, 0, 0>>]

\* A null mdb_.
NoMDB == [alive |-> FALSE, trcr2prob |-> <<>>]

\* The ranks have started; nothing is analysed.
InitRanks ==
  /\ heap \in [Ranks -> {"up", "down"}]
  /\ eager \in BOOLEAN
  /\ gci2lci_ = [r \in Ranks |-> <<>>]
  /\ mdb_ = [r \in Ranks |-> NoMDB]
  /\ md_ = [r \in Ranks |-> NoMD]
  /\ ns_ = [r \in Ranks |-> NoNS]
  /\ pc = [r \in Ranks |-> At("new", 0)]
  /\ buf = [r \in Ranks |-> [data |-> <<>>, l2r |-> <<>>, r2l |-> <<>>]]
  /\ req = [r \in Ranks |-> [me |-> <<>>, kids |-> <<>>]]
  /\ chan = [s \in Ranks |-> [d \in Ranks |-> <<>>]]
  /\ mpi_err = {}
  /\ nerr = [r \in Ranks |-> 0]
  /\ my_nleaves = [r \in Ranks |-> 0]
  /\ glbl_nleaves = 0
  /\ trial = [r \in Ranks |-> 0]
  /\ call = NoCall
  /\ bfb = [r \in Ranks |-> NoBfb]

\* The tree is built and the ranks have started.
InitTree ==
  /\ ncells \in NRanks..MaxLeaves
  /\ tree \in Trees(ncells)
  /\ InitRanks

\* unittest_NodeSets: no QLT object, no tracer.
Init ==
  /\ InitTree
  /\ tracers_ = <<>>
  /\ rhom = <<>>

\* The request arrays of a NodeSets, as init_comm sizes them (lines 340, 342).
null_reqs(a) ==
  [me |-> [il \in DOMAIN a.levels |-> [i \in DOMAIN a.levels[il].me |-> NullReq]],
   kids |-> [il \in DOMAIN a.levels |-> [i \in DOMAIN a.levels[il].kids |-> NullReq]]]

\* impl::analyze on rank r; a failed assertion ends the rank.
Analyze(r) ==
  /\ Running /\ pc[r].ph = "new"
  /\ ns_' = [ns_ EXCEPT ![r] = analyze(r, ncells, tree, heap[r])]
  /\ req' = [req EXCEPT ![r] = null_reqs(ns_'[r])]
  /\ pc' = [pc EXCEPT ![r] = IF ns_'[r].ok THEN At("check", 0) ELSE At("abort", 0)]
  /\ UNCHANGED <<xvars, qvars, tree, ncells, heap, eager, buf, chan, mpi_err,
                 nerr, my_nleaves, glbl_nleaves>>

\* impl::unittest on rank r up to the all_reduce of check_leaf_nodes.
UnitCheck(r) ==
  /\ Running /\ pc[r].ph = "check"
  /\ LET cc == check_comm(ns_[r])
         cl == check_leaf_nodes(ns_[r], ncells)
     IN  IF ~cc.ok THEN
           /\ pc' = [pc EXCEPT ![r] = At("abort", 0)]
           /\ UNCHANGED <<nerr, my_nleaves>>
         ELSE IF cc.nerr > 0 THEN
           /\ pc' = [pc EXCEPT ![r] = At("done", 0)]
           /\ nerr' = [nerr EXCEPT ![r] = cc.nerr]
           /\ UNCHANGED my_nleaves
         ELSE IF ~cl.ok THEN
           /\ pc' = [pc EXCEPT ![r] = At("abort", 0)]
           /\ UNCHANGED <<nerr, my_nleaves>>
         ELSE
           /\ pc' = [pc EXCEPT ![r] = At("allreduce", 0)]
           /\ my_nleaves' = [my_nleaves EXCEPT ![r] = cl.my_nleaves]
           /\ UNCHANGED nerr
  /\ UNCHANGED <<xvars, qvars, tree, ncells, heap, eager, ns_, buf, req, chan,
                 mpi_err, glbl_nleaves>>

\* The start of test_comm_pattern (lines 412-415): each leaf's id in its slot.
tcp_init(nsr) ==
  [k \in 1..nsr.nslots |->
     IF \E j \in DOMAIN nsr.levels[1].nodes :
          nsr.nodes[nsr.levels[1].nodes[j]].offset = k - 1
     THEN LET j == CHOOSE j \in DOMAIN nsr.levels[1].nodes :
                     nsr.nodes[nsr.levels[1].nodes[j]].offset = k - 1
          IN  nsr.nodes[nsr.levels[1].nodes[j]].id
     ELSE 0]

\* mpi::all_reduce in check_leaf_nodes completes once every rank has entered
\* it; a rank whose count is wrong returns, the others go on to
\* test_comm_pattern.
AllReduce ==
  /\ Running /\ \A r \in Ranks : pc[r].ph = "allreduce"
  /\ LET g == SumSeq([k \in 1..NRanks |-> my_nleaves[k - 1]]) IN
       /\ glbl_nleaves' = g
       /\ nerr' = [r \in Ranks |-> IF g # ncells THEN 1 ELSE 0]
       /\ pc' = [r \in Ranks |-> IF g # ncells THEN At("done", 0) ELSE At("l2r_recv", 1)]
       /\ buf' = [r \in Ranks |->
                    IF g # ncells THEN buf[r]
                    ELSE [buf[r] EXCEPT !.data = tcp_init(ns_[r])]]
  /\ UNCHANGED <<xvars, qvars, tree, ncells, heap, eager, ns_, req, chan,
                 mpi_err, my_nleaves>>

\* ------------------------------------------------------------------------
\* test_comm_pattern.

\* "Combine kids' data" (lines 428-433), node k of the level onward.
RECURSIVE tcp_combine(_, _, _, _)
tcp_combine(data, nsr, nodes, k) ==
  IF k > Len(nodes) THEN data
  ELSE LET n == nsr.nodes[nodes[k]] IN
       IF n.nkids = 0 THEN tcp_combine(data, nsr, nodes, k + 1)
       ELSE tcp_combine(
              [data EXCEPT ![n.offset + 1] =
                 SumSeq([j \in 1..n.nkids |-> data[nsr.nodes[n.kids[j]].offset + 1]])],
              nsr, nodes, k + 1)

\* "Pass to kids" (lines 455-459), node k of the level onward.
RECURSIVE tcp_pass(_, _, _, _)
tcp_pass(data, nsr, nodes, k) ==
  IF k > Len(nodes) THEN data
  ELSE LET n == nsr.nodes[nodes[k]]
           kidoffs == {nsr.nodes[n.kids[j]].offset + 1 : j \in 1..n.nkids}
       IN  tcp_pass([x \in DOMAIN data |->
                       IF x \in kidoffs THEN data[n.offset + 1] ELSE data[x]],
                    nsr, nodes, k + 1)

SetWorld(w) ==
  /\ buf' = w.buf
  /\ chan' = w.chan
  /\ req' = w.req
  /\ mpi_err' = w.mpi_err

\* Leaves to root, level il: set up the receives (lines 420-424).
TcpL2RRecv(r) ==
  /\ Running /\ pc[r].ph = "l2r_recv"
  /\ LET il == pc[r].il IN
       /\ SetWorld(post_irecvs(World, r, "data", 1, ns_[r].levels[il].kids,
                               "kids", il, 1))
       /\ pc' = [pc EXCEPT ![r] = At("l2r_wait", il)]
  /\ UNCHANGED <<xvars, qvars, tree, ncells, heap, eager, ns_, nerr, my_nleaves,
                 glbl_nleaves>>

\* Leaves to root, level il: waitall on kids_req, combine, send to parents
\* (lines 426-439).
TcpL2RWait(r) ==
  /\ Running /\ pc[r].ph = "l2r_wait"
  /\ LET il == pc[r].il
         lvl == ns_[r].levels[il]
     IN  /\ AllComplete(World, r, req[r].kids[il])
         /\ LET w1 == [World EXCEPT
                         !.req[r].kids[il] = waitall(@),
                         !.buf[r].data = tcp_combine(@, ns_[r], lvl.nodes, 1)]
            IN  SetWorld(post_isends(w1, r, "data", 1, lvl.me, "me", il, 1))
         /\ pc' = [pc EXCEPT ![r] = IF il = NLevels(r) THEN At("l2r_lastwait", il)
                                    ELSE At("l2r_recv", il + 1)]
  /\ UNCHANGED <<xvars, qvars, tree, ncells, heap, eager, ns_, nerr, my_nleaves,
                 glbl_nleaves>>

\* Leaves to root, last level: waitall on me_req (lines 440-441).
TcpL2RLastWait(r) ==
  /\ Running /\ pc[r].ph = "l2r_lastwait"
  /\ LET il == pc[r].il IN
       /\ AllComplete(World, r, req[r].me[il])
       /\ req' = [req EXCEPT ![r].me[il] = waitall(@)]
       /\ pc' = [pc EXCEPT ![r] = At("r2l_recv", il)]
  /\ UNCHANGED <<xvars, qvars, tree, ncells, heap, eager, ns_, buf, chan,
                 mpi_err, nerr, my_nleaves, glbl_nleaves>>

\* Root to leaves, level il: receives from the parents (lines 447-451).
TcpR2LRecv(r) ==
  /\ Running /\ pc[r].ph = "r2l_recv"
  /\ LET il == pc[r].il IN
       /\ SetWorld(post_irecvs(World, r, "data", 1, ns_[r].levels[il].me,
                               "me", il, 1))
       /\ pc' = [pc EXCEPT ![r] = At("r2l_wait", il)]
  /\ UNCHANGED <<xvars, qvars, tree, ncells, heap, eager, ns_, nerr, my_nleaves,
                 glbl_nleaves>>

\* Root to leaves, level il: waitall on me_req, pass to kids, send (lines
\* 453-465).
TcpR2LWait(r) ==
  /\ Running /\ pc[r].ph = "r2l_wait"
  /\ LET il == pc[r].il
         lvl == ns_[r].levels[il]
     IN  /\ AllComplete(World, r, req[r].me[il])
         /\ LET w1 == [World EXCEPT
                         !.req[r].me[il] = waitall(@),
                         !.buf[r].data = tcp_pass(@, ns_[r], lvl.nodes, 1)]
            IN  SetWorld(post_isends(w1, r, "data", 1, lvl.kids, "kids", il, 1))
         /\ pc' = [pc EXCEPT ![r] = IF il = 1 THEN At("cleanup", 0)
                                    ELSE At("r2l_recv", il - 1)]
  /\ UNCHANGED <<xvars, qvars, tree, ncells, heap, eager, ns_, nerr, my_nleaves,
                 glbl_nleaves>>

\* Whether the waits of the clean-up loop (lines 468-473, 839-844) all return.
CleanupReady(r) ==
  \A il \in 1..NLevels(r) :
    /\ il < NLevels(r) => AllComplete(World, r, req[r].me[il])
    /\ AllComplete(World, r, req[r].kids[il])

cleanup(rq) ==
  [me |-> [il \in DOMAIN rq.me |->
             IF il < Len(rq.me) THEN waitall(rq.me[il]) ELSE rq.me[il]],
   kids |-> [il \in DOMAIN rq.kids |-> waitall(rq.kids[il])]]

\* The leaves that do not hold the desired sum (lines 475-477).
tcp_nerr(nsr, data, ncells_) ==
  LET desired_sum == (ncells_ * (ncells_ - 1)) \div 2
  IN  Cardinality({k \in DOMAIN nsr.levels[1].nodes :
                     data[nsr.nodes[nsr.levels[1].nodes[k]].offset + 1] # desired_sum})

\* "Wait on sends to clean up" and the check of the leaves (lines 467-483).
TcpCleanup(r) ==
  /\ Running /\ pc[r].ph = "cleanup"
  /\ CleanupReady(r)
  /\ req' = [req EXCEPT ![r] = cleanup(@)]
  /\ nerr' = [nerr EXCEPT ![r] = tcp_nerr(ns_[r], buf[r].data, ncells)]
  /\ pc' = [pc EXCEPT ![r] = At("done", 0)]
  /\ UNCHANGED <<xvars, qvars, tree, ncells, heap, eager, ns_, buf, chan,
                 mpi_err, my_nleaves, glbl_nleaves>>

Next ==
  \/ \E r \in Ranks : Analyze(r)
  \/ \E r \in Ranks : UnitCheck(r)
  \/ AllReduce
  \/ \E r \in Ranks : TcpL2RRecv(r)
  \/ \E r \in Ranks : TcpL2RWait(r)
  \/ \E r \in Ranks : TcpL2RLastWait(r)
  \/ \E r \in Ranks : TcpR2LRecv(r)
  \/ \E r \in Ranks : TcpR2LWait(r)
  \/ \E r \in Ranks : TcpCleanup(r)

Spec == Init /\ [][Next]_vars

\* ------------------------------------------------------------------------
\* QLT: tracer metadata.

\* ProblemType bits.
shapepreserve == 1
conserve == 2
consistent == 4

\* mask & bit # 0, for a bit of ProblemType.
HasBit(mask, bit) == (mask \div bit) % 2 = 1

nprobtypes == 4

\* MetaData::problem_type_: the canonical problem types st, cst, t, ct.
problem_type_ ==
  << shapepreserve + consistent, conserve + shapepreserve + consistent,
     consistent, conserve + consistent >>

\* MetaData::get_problem_type.
get_problem_type(idx) == problem_type_[idx + 1]

\* get_problem_type_idx taking conserve alone for ct.
get_problem_type_idx_lax(mask) ==
  CASE mask \in {shapepreserve, shapepreserve + consistent} -> 0
    [] mask \in {conserve + shapepreserve,
                 conserve + shapepreserve + consistent} -> 1
    [] mask = consistent -> 2
    [] mask \in {conserve, conserve + consistent} -> 3
    [] OTHER -> -1

\* MetaData::get_problem_type_idx; -1 stands for the exception thrown.
get_problem_type_idx(mask) ==
  CASE mask \in {shapepreserve, shapepreserve + consistent} -> 0
    [] mask \in {conserve + shapepreserve,
                 conserve + shapepreserve + consistent} -> 1
    [] mask = consistent -> 2
    [] mask = conserve + consistent -> 3
    [] OTHER -> -1

get_problem_type_l2r_bulk_size(mask) == IF HasBit(mask, conserve) THEN 4 ELSE 3

\* An R2L bulk size that ignores shapepreserve.
get_problem_type_r2l_bulk_size_three(mask) == 3

get_problem_type_r2l_bulk_size(mask) == IF HasBit(mask, shapepreserve) THEN 1 ELSE 3

\* MetaData::init, the loop over the tracers for problem type pi (lines
\* 554-561), tracer ti onward.  Arrays are 0-based in the code and 1-based
\* here; their entries are the code's.
RECURSIVE md_tracers(_, _, _)
md_tracers(a, pi, ti) ==
  IF ti >= Len(a.trcr2prob) THEN a
  ELSE IF a.trcr2prob[ti + 1] # problem_type_[pi + 1]
  THEN md_tracers(a, pi, ti + 1)
  ELSE LET l2rbulksz == get_problem_type_l2r_bulk_size(get_problem_type(pi))
           r2lbulksz == get_problem_type_r2l_bulk_size(get_problem_type(pi))
           tcnt == a.prob2trcrptr[pi + 2] - a.prob2trcrptr[pi + 1]
       IN  md_tracers(
             [a EXCEPT !.trcr2bl2r[ti + 1] = a.prob2bl2r[pi + 1] + tcnt * l2rbulksz,
                       !.trcr2br2l[ti + 1] = a.prob2br2l[pi + 1] + tcnt * r2lbulksz,
                       !.bidx2trcr[a.prob2trcrptr[pi + 2] + 1] = ti,
                       !.prob2trcrptr[pi + 2] = @ + 1],
             pi, ti + 1)

\* MetaData::init, the loop over the problem types (lines 550-565).
RECURSIVE md_probs(_, _)
md_probs(a, pi) ==
  IF pi >= nprobtypes THEN a
  ELSE LET l2rbulksz == get_problem_type_l2r_bulk_size(get_problem_type(pi))
           r2lbulksz == get_problem_type_r2l_bulk_size(get_problem_type(pi))
           a1 == md_tracers([a EXCEPT !.prob2trcrptr[pi + 2] = a.prob2trcrptr[pi + 1]],
                            pi, 0)
           ni == a1.prob2trcrptr[pi + 2] - a1.prob2trcrptr[pi + 1]
       IN  md_probs([a1 EXCEPT !.prob2bl2r[pi + 2] = a1.prob2bl2r[pi + 1] + ni * l2rbulksz,
                               !.prob2br2l[pi + 2] = a1.prob2br2l[pi + 1] + ni * r2lbulksz],
                    pi + 1)

\* MetaData::init without the loop setting trcr2bidx.
md_trcr2bidx_unset(a, ti) == a

\* MetaData::init, the loop setting trcr2bidx (lines 571-572).
RECURSIVE md_trcr2bidx(_, _)
md_trcr2bidx(a, ti) ==
  IF ti >= Len(a.trcr2prob) THEN a
  ELSE md_trcr2bidx([a EXCEPT !.trcr2bidx[a.bidx2trcr[ti + 1] + 1] = ti], ti + 1)

\* MetaData::init keeping trcr2prob in the order of the blocks.
MetaData_init_grouped(trcr2prob) ==
  LET zeros == [ti \in DOMAIN trcr2prob |-> 0]
      a0 == [NoMD EXCEPT !.trcr2prob = trcr2prob, !.bidx2trcr = zeros,
                         !.trcr2bidx = zeros, !.trcr2bl2r = zeros,
                         !.trcr2br2l = zeros, !.prob2bl2r[1] = 1]
      a1 == md_trcr2bidx(md_probs(a0, 0), 0)
  IN  [a1 EXCEPT !.trcr2prob = [bi \in DOMAIN trcr2prob |->
                                  trcr2prob[a1.bidx2trcr[bi] + 1]]]

\* MetaData::init from the builder's trcr2prob; 'ok' is the final assertion.
MetaData_init(trcr2prob) ==
  LET zeros == [ti \in DOMAIN trcr2prob |-> 0]
      a0 == [NoMD EXCEPT !.trcr2prob = trcr2prob, !.bidx2trcr = zeros,
                         !.trcr2bidx = zeros, !.trcr2bl2r = zeros,
                         !.trcr2br2l = zeros, !.prob2bl2r[1] = 1]
  IN  md_trcr2bidx(md_probs(a0, 0), 0)

\* Number of data per slot (lines 694-695).
l2rndps(md) == md.prob2bl2r[nprobtypes + 1]
r2lndps(md) == md.prob2br2l[nprobtypes + 1]

\* ------------------------------------------------------------------------
\* Real.  A Real is a binary floating-point number; here its significand has
\* MantBits bits and its values are integers, so that the integers up to
\* 2^MantBits are exact and a larger sum is rounded to nearest, ties to even.
MantBits == 3

\* The spacing of the Reals around a >= 0: the least power of two u with
\* a < u * 2^MantBits.
RECURSIVE Ulp(_, _)
Ulp(a, u) == IF a < u * 2^MantBits THEN u ELSE Ulp(a, 2 * u)

Round(x) ==
  LET a == IF x < 0 THEN 0 - x ELSE x
      u == Ulp(a, 1)
      q == a \div u
      rem == a % u
      up == 2 * rem > u \/ (2 * rem = u /\ q % 2 = 1)
      m == (IF up THEN q + 1 ELSE q) * u
  IN  IF x < 0 THEN 0 - m ELSE m

\* Real + Real.
fadd(x, y) == Round(x + y)

\* ------------------------------------------------------------------------
\* QLT: a node's record in l2r_data or r2l_data.

Zeros(n) == [k \in 1..n |-> 0]

\* The record of width W at offset os of buffer b.
RecAt(b, os, W) == SubSeq(b, os * W + 1, os * W + W)

\* "Combine kids' data" for one node, the tracers (lines 718-734): block
\* index bi onward writes into the node's record me.
RECURSIVE combine_tracers(_, _, _, _, _, _)
combine_tracers(md, me, k0, k1, pti, bi) ==
  IF pti >= nprobtypes THEN me
  ELSE IF bi < md.prob2trcrptr[pti + 1]
  THEN combine_tracers(md, me, k0, k1, pti, md.prob2trcrptr[pti + 1])
  ELSE IF bi >= md.prob2trcrptr[pti + 2]
  THEN combine_tracers(md, me, k0, k1, pti + 1, bi)
  ELSE LET problem_type == get_problem_type(pti)
           sum_only == HasBit(problem_type, shapepreserve)
           bsz == get_problem_type_l2r_bulk_size(problem_type)
           bdi == md.trcr2bl2r[md.bidx2trcr[bi + 1] + 1]
           m0 == [me EXCEPT
                    ![bdi + 1] = IF sum_only THEN fadd(k0[bdi + 1], k1[bdi + 1])
                                 ELSE Min(k0[bdi + 1], k1[bdi + 1]),
                    ![bdi + 2] = fadd(k0[bdi + 2], k1[bdi + 2]),
                    ![bdi + 3] = IF sum_only THEN fadd(k0[bdi + 3], k1[bdi + 3])
                                 ELSE Max(k0[bdi + 3], k1[bdi + 3])]
           m1 == IF bsz = 4
                 THEN [m0 EXCEPT ![bdi + 4] = fadd(k0[bdi + 4], k1[bdi + 4])]
                 ELSE m0
       IN  combine_tracers(md, m1, k0, k1, pti, bi + 1)

\* "Combine kids' data" for one node (lines 715-734): the node's L2R record
\* from its old record me and its kids' records.
l2r_combine(md, me, k0, k1) ==
  combine_tracers(md, [me EXCEPT ![1] = fadd(k0[1], k1[1])], k0, k1, 0, 0)

\* root_r2l copying the L2R Qm into the root's R2L Qm whatever the type.
RECURSIVE root_r2l_Qm(_, _, _, _, _)
root_r2l_Qm(md, r2l, l2r, pti, bi) ==
  IF pti >= nprobtypes THEN r2l
  ELSE IF bi < md.prob2trcrptr[pti + 1]
  THEN root_r2l_Qm(md, r2l, l2r, pti, md.prob2trcrptr[pti + 1])
  ELSE IF bi >= md.prob2trcrptr[pti + 2]
  THEN root_r2l_Qm(md, r2l, l2r, pti + 1, bi)
  ELSE LET problem_type == get_problem_type(pti)
           l2rbdi == md.trcr2bl2r[md.bidx2trcr[bi + 1] + 1]
           r2lbdi == md.trcr2br2l[md.bidx2trcr[bi + 1] + 1]
           os == 1
           q0 == [r2l EXCEPT ![r2lbdi + 1] = l2r[l2rbdi + os + 1]]
           q1 == IF ~HasBit(problem_type, shapepreserve)
                 THEN [q0 EXCEPT ![r2lbdi + 2] = l2r[l2rbdi + 1],
                                 ![r2lbdi + 3] = l2r[l2rbdi + 3]]
                 ELSE q0
       IN  root_r2l_Qm(md, q1, l2r, pti, bi + 1)

\* root_r2l without the copy of the bounds (lines 765-772 dropped).
RECURSIVE root_r2l_nobounds(_, _, _, _, _)
root_r2l_nobounds(md, r2l, l2r, pti, bi) ==
  IF pti >= nprobtypes THEN r2l
  ELSE IF bi < md.prob2trcrptr[pti + 1]
  THEN root_r2l_nobounds(md, r2l, l2r, pti, md.prob2trcrptr[pti + 1])
  ELSE IF bi >= md.prob2trcrptr[pti + 2]
  THEN root_r2l_nobounds(md, r2l, l2r, pti + 1, bi)
  ELSE LET problem_type == get_problem_type(pti)
           l2rbdi == md.trcr2bl2r[md.bidx2trcr[bi + 1] + 1]
           r2lbdi == md.trcr2br2l[md.bidx2trcr[bi + 1] + 1]
           os == IF HasBit(problem_type, conserve) THEN 3 ELSE 1
       IN  root_r2l_nobounds(md, [r2l EXCEPT ![r2lbdi + 1] = l2r[l2rbdi + os + 1]],
                             l2r, pti, bi + 1)

\* The root's R2L record (lines 753-774) from its old R2L record and its L2R
\* record, block index bi onward.
RECURSIVE root_r2l(_, _, _, _, _)
root_r2l(md, r2l, l2r, pti, bi) ==
  IF pti >= nprobtypes THEN r2l
  ELSE IF bi < md.prob2trcrptr[pti + 1]
  THEN root_r2l(md, r2l, l2r, pti, md.prob2trcrptr[pti + 1])
  ELSE IF bi >= md.prob2trcrptr[pti + 2]
  THEN root_r2l(md, r2l, l2r, pti + 1, bi)
  ELSE LET problem_type == get_problem_type(pti)
           l2rbdi == md.trcr2bl2r[md.bidx2trcr[bi + 1] + 1]
           r2lbdi == md.trcr2br2l[md.bidx2trcr[bi + 1] + 1]
           os == IF HasBit(problem_type, conserve) THEN 3 ELSE 1
           q0 == [r2l EXCEPT ![r2lbdi + 1] = l2r[l2rbdi + os + 1]]
           q1 == IF ~HasBit(problem_type, shapepreserve)
                 THEN [q0 EXCEPT ![r2lbdi + 2] = l2r[l2rbdi + 1],
                                 ![r2lbdi + 3] = l2r[l2rbdi + 3]]
                 ELSE q0
       IN  root_r2l(md, q1, l2r, pti, bi + 1)

\* solve_node_problem, by its contract: deterministic; the kids' Qm values
\* r2l_0, r2l_1 add up to the parent's r2l_p and lie in the kids' bounds
\* [l2r_k[0], l2r_k[2]] whenever that is feasible.  l2r_p, l2r_0, l2r_1 are
\* the tracer's blocks; the result is <<r2l_0, r2l_1>>.
solve_node_problem(problem_type, rho_p, l2r_p, r2l_p, rho_0, l2r_0, rho_1, l2r_1) ==
  LET lo == Max(l2r_0[1], r2l_p - l2r_1[3])
      hi == Min(l2r_0[3], r2l_p - l2r_1[1])
      r2l_0 == Max(lo, Min(hi, l2r_0[2]))
  IN  << r2l_0, r2l_p - r2l_0 >>

\* "Solve QP for kids' values" for one node (lines 793-828), block index bi
\* onward.  S holds the records involved: pl, pr the node's L2R and R2L
\* records, k0l, k0r, k1l, k1r those of its kids.
RECURSIVE solve_tracers(_, _, _, _)
solve_tracers(md, S, pti, bi) ==
  IF pti >= nprobtypes THEN S
  ELSE IF bi < md.prob2trcrptr[pti + 1]
  THEN solve_tracers(md, S, pti, md.prob2trcrptr[pti + 1])
  ELSE IF bi >= md.prob2trcrptr[pti + 2]
  THEN solve_tracers(md, S, pti + 1, bi)
  ELSE LET problem_type == get_problem_type(pti)
           l2rbdi == md.trcr2bl2r[md.bidx2trcr[bi + 1] + 1]
           r2lbdi == md.trcr2br2l[md.bidx2trcr[bi + 1] + 1]
           bsz == get_problem_type_l2r_bulk_size(problem_type)
           q_min == S.pr[r2lbdi + 2]
           q_max == S.pr[r2lbdi + 3]
           S1 == IF ~HasBit(problem_type, shapepreserve)
                 THEN [S EXCEPT !.pl[l2rbdi + 1] = q_min, !.pl[l2rbdi + 3] = q_max,
                                !.k0l[l2rbdi + 1] = q_min, !.k0l[l2rbdi + 3] = q_max,
                                !.k0r[r2lbdi + 2] = q_min, !.k0r[r2lbdi + 3] = q_max,
                                !.k1l[l2rbdi + 1] = q_min, !.k1l[l2rbdi + 3] = q_max,
                                !.k1r[r2lbdi + 2] = q_min, !.k1r[r2lbdi + 3] = q_max]
                 ELSE S
           q == solve_node_problem(
                  problem_type,
                  S1.pl[1], SubSeq(S1.pl, l2rbdi + 1, l2rbdi + bsz), S1.pr[r2lbdi + 1],
                  S1.k0l[1], SubSeq(S1.k0l, l2rbdi + 1, l2rbdi + bsz),
                  S1.k1l[1], SubSeq(S1.k1l, l2rbdi + 1, l2rbdi + bsz))
       IN  solve_tracers(md, [S1 EXCEPT !.k0r[r2lbdi + 1] = q[1],
                                       !.k1r[r2lbdi + 1] = q[2]],
                         pti, bi + 1)

\* The caller's values for tracer ti in cell c (TestQLT::generate_Q and
\* perturb_Q): the previous mass, bounds around it, and a perturbed mass.
Qm_prev(ti, c) == rhom[c + 1]
Qm_min(ti, c) == 0
Qm_max(ti, c) == 2 * rhom[c + 1]
Qm(ti, c) == rhom[c + 1] + ((c + ti) % 2)

\* set_rhom: slot 0 of the L2R record of local cell lci.
set_rhom(md, l2r, lci, x) == [l2r EXCEPT ![lci * l2rndps(md) + 1] = x]

\* set_Qm: the tracer's L2R slots of local cell lci, as many as its problem
\* type has.
set_Qm(md, l2r, lci, ti, Qm_, Qm_min_, Qm_max_, Qm_prev_) ==
  LET bsz == get_problem_type_l2r_bulk_size(md.trcr2prob[ti + 1])
      blk == << Qm_min_, Qm_, Qm_max_, Qm_prev_ >>
  IN  WriteAt(l2r, lci * l2rndps(md) + md.trcr2bl2r[ti + 1], SubSeq(blk, 1, bsz))

\* get_Qm: the tracer's R2L Qm of local cell lci.
get_Qm(md, r2l, lci, ti) == r2l[lci * r2lndps(md) + md.trcr2br2l[ti + 1] + 1]

\* The calls of set_Qm for local cell lci holding cell c, tracer ti onward
\* (lines 1348-1353).
RECURSIVE set_Qm_tracers(_, _, _, _, _)
set_Qm_tracers(md, l2r, lci, c, ti) ==
  IF ti >= Len(md.trcr2prob) THEN l2r
  ELSE set_Qm_tracers(md,
         set_Qm(md, l2r, lci, ti, Qm(ti, c), Qm_min(ti, c), Qm_max(ti, c),
                Qm_prev(ti, c)),
         lci, c, ti + 1)

\* init_ordinals recording a leaf's position in levels[0].nodes instead of
\* its offset.
init_ordinals_position(nsr) ==
  LET leaves == nsr.levels[1].nodes
      ids == {nsr.nodes[leaves[k]].id : k \in DOMAIN leaves}
  IN  [gci \in ids |->
         (CHOOSE k \in DOMAIN leaves :
            /\ nsr.nodes[leaves[k]].id = gci
            /\ \A j \in DOMAIN leaves : nsr.nodes[leaves[j]].id = gci => j <= k) - 1]

\* init_ordinals: gci2lci_[n->id] = n->offset for the nodes of levels[0].
init_ordinals(nsr) ==
  LET leaves == nsr.levels[1].nodes
      ids == {nsr.nodes[leaves[k]].id : k \in DOMAIN leaves}
  IN  [gci \in ids |->
         LET k == CHOOSE k \in DOMAIN leaves :
                    /\ nsr.nodes[leaves[k]].id = gci
                    /\ \A j \in DOMAIN leaves :
                         nsr.nodes[leaves[j]].id = gci => j <= k
         IN  nsr.nodes[leaves[k]].offset]

\* QLT::nlclcells.
nlclcells(nsr) == Len(nsr.levels[1].nodes)

\* get_owned_glblcells: gcis resized to the number of leaves (new entries
\* are 0), then gcis[n->offset] = n->id in the order of levels[0].nodes.
RECURSIVE set_gcis(_, _, _)
set_gcis(gcis, nsr, k) ==
  IF k > Len(nsr.levels[1].nodes) THEN gcis
  ELSE LET n == nsr.nodes[nsr.levels[1].nodes[k]]
       IN  set_gcis(WriteAt(gcis, n.offset, <<n.id>>), nsr, k + 1)

get_owned_glblcells(nsr) == set_gcis(Zeros(Len(nsr.levels[1].nodes)), nsr, 1)

\* gci2lci reading the map with operator[]: an id that is not in the map gets
\* the default index 0.
gci2lci_default(map, gci) == IF gci \in DOMAIN map THEN map[gci] ELSE 0

\* QLT::gci2lci; -1 stands for the exception thrown.
gci2lci(map, gci) == IF gci \in DOMAIN map THEN map[gci] ELSE -1

\* ------------------------------------------------------------------------
\* QLT: construction, tracer declaration, input and run(), as TestQLT drives
\* them on every rank.

\* The problem types the caller declares.
TracerLists ==
  { << conserve + shapepreserve + consistent >>,
    << conserve + consistent, shapepreserve >> }

\* The caller's densities: every cell 1, or the first cell large enough for
\* sums to round.
RhoVectors(n) ==
  {[k \in 1..n |-> IF k = h THEN 2^MantBits - 1 ELSE 1] : h \in 0..1}

InitRun ==
  /\ InitTree
  /\ tracers_ \in TracerLists
  /\ rhom \in RhoVectors(ncells)

\* QLT::QLT on rank r: analyze and init_ordinals; mdb_ is a new builder.
QLTInit(r) ==
  /\ Running /\ pc[r].ph = "new"
  /\ ns_' = [ns_ EXCEPT ![r] = analyze(r, ncells, tree, heap[r])]
  /\ req' = [req EXCEPT ![r] = null_reqs(ns_'[r])]
  /\ IF ns_'[r].ok /\ ns_'[r].levels # <<>>
     THEN /\ gci2lci_' = [gci2lci_ EXCEPT ![r] = init_ordinals(ns_'[r])]
          /\ mdb_' = [mdb_ EXCEPT ![r] = [alive |-> TRUE, trcr2prob |-> <<>>]]
          /\ pc' = [pc EXCEPT ![r] = At("declare", 0)]
     ELSE /\ pc' = [pc EXCEPT ![r] = At("abort", 0)]
          /\ UNCHANGED <<gci2lci_, mdb_>>
  /\ UNCHANGED <<xvars, tree, ncells, heap, eager, buf, chan, mpi_err, nerr,
                 my_nleaves, glbl_nleaves, tracers_, rhom, md_>>

\* declare_tracer without the test of mdb_.
declare_tracer_unguarded(mdb, problem_type) ==
  LET idx == get_problem_type_idx(problem_type) IN
  IF idx = -1 THEN [mdb |-> mdb, threw |-> TRUE]
  ELSE [mdb |-> [alive |-> TRUE,
                 trcr2prob |-> Append(mdb.trcr2prob, get_problem_type(idx))],
        threw |-> FALSE]

\* QLT::declare_tracer (lines 660-668) on builder mdb: the builder after the
\* call and whether the call threw.
declare_tracer(mdb, problem_type) ==
  LET idx == get_problem_type_idx(problem_type) IN
  IF ~mdb.alive \/ idx = -1 THEN [mdb |-> mdb, threw |-> TRUE]
  ELSE [mdb |-> [mdb EXCEPT !.trcr2prob = Append(@, get_problem_type(idx))],
        threw |-> FALSE]

\* QLT::get_num_tracers.
get_num_tracers(md) == Len(md.trcr2prob)

\* QLT::get_problem_type(tracer_idx); -1 stands for the exception thrown.
QLT_get_problem_type(md, tracer_idx) ==
  IF tracer_idx < 0 \/ tracer_idx > Len(md.trcr2prob) THEN -1
  ELSE md.trcr2prob[tracer_idx + 1]

\* QLT::declare_tracer on rank r with the caller's next problem type; the
\* caller does not catch the exception.
DeclareTracer(r) ==
  /\ Running /\ pc[r].ph = "declare" /\ pc[r].il < Len(tracers_)
  /\ LET d == declare_tracer(mdb_[r], tracers_[pc[r].il + 1]) IN
       /\ mdb_' = [mdb_ EXCEPT ![r] = d.mdb]
       /\ pc' = [pc EXCEPT ![r] = IF d.threw THEN At("abort", 0)
                                  ELSE At("declare", pc[r].il + 1)]
  /\ UNCHANGED <<xvars, tree, ncells, heap, eager, ns_, buf, req, chan, mpi_err,
                 nerr, my_nleaves, glbl_nleaves, tracers_, rhom, gci2lci_, md_>>

\* QLT::end_tracer_declarations on rank r: MetaData::init, BulkData::init.
EndTracerDeclarations(r) ==
  /\ Running /\ pc[r].ph = "declare" /\ pc[r].il = Len(tracers_)
  /\ md_' = [md_ EXCEPT ![r] = MetaData_init(mdb_[r].trcr2prob)]
  /\ mdb_' = [mdb_ EXCEPT ![r] = NoMDB]
  /\ buf' = [buf EXCEPT ![r].l2r = Zeros(l2rndps(md_'[r]) * ns_[r].nslots),
                        ![r].r2l = Zeros(r2lndps(md_'[r]) * ns_[r].nslots)]
  /\ pc' = [pc EXCEPT ![r] =
              IF md_'[r].prob2trcrptr[nprobtypes + 1] = Len(mdb_[r].trcr2prob)
              THEN At("input", 0) ELSE At("abort", 0)]
  /\ UNCHANGED <<xvars, tree, ncells, heap, eager, ns_, req, chan, mpi_err,
                 nerr, my_nleaves, glbl_nleaves, tracers_, rhom, gci2lci_>>

\* The calls of set_rhom and set_Qm for the cells of rank r (lines
\* 1336-1353), leaf k of levels[0] onward.
RECURSIVE set_inputs(_, _, _, _, _)
set_inputs(l2r, md, nsr, map, k) ==
  IF k > Len(nsr.levels[1].nodes) THEN l2r
  ELSE LET c == nsr.nodes[nsr.levels[1].nodes[k]].id
           lci == gci2lci(map, c)
       IN  set_inputs(set_Qm_tracers(md, set_rhom(md, l2r, lci, rhom[c + 1]),
                                     lci, c, 0),
                      md, nsr, map, k + 1)

\* The calls of set_Qm for the cells of rank r in a trial (lines 1348-1353),
\* leaf k of levels[0] onward.
RECURSIVE set_Qms(_, _, _, _, _)
set_Qms(l2r, md, nsr, map, k) ==
  IF k > Len(nsr.levels[1].nodes) THEN l2r
  ELSE LET c == nsr.nodes[nsr.levels[1].nodes[k]].id
       IN  set_Qms(set_Qm_tracers(md, l2r, gci2lci(map, c), c, 0),
                   md, nsr, map, k + 1)

\* TestQLT::run(nrepeat): the default of nrepeat.
nrepeat == 1

\* TestQLT::run on rank r up to the barrier before run(): before the first
\* trial the caller writes rhom and Qm of its cells, before a later trial
\* Qm only.
SetInputs(r) ==
  /\ Running /\ pc[r].ph = "input"
  /\ buf' = [buf EXCEPT ![r].l2r =
               IF trial[r] = 0
               THEN set_inputs(@, md_[r], ns_[r], gci2lci_[r], 1)
               ELSE set_Qms(@, md_[r], ns_[r], gci2lci_[r], 1)]
  /\ pc' = [pc EXCEPT ![r] = At("barrier", 0)]
  /\ UNCHANGED <<xvars, qvars, tree, ncells, heap, eager, ns_, req, chan,
                 mpi_err, nerr, my_nleaves, glbl_nleaves>>

\* MPI_Barrier before run() (line 1354).
Barrier ==
  /\ Running /\ \A r \in Ranks : pc[r].ph = "barrier"
  /\ pc' = [r \in Ranks |-> At("l2r_recv", 1)]
  /\ UNCHANGED <<xvars, qvars, tree, ncells, heap, eager, ns_, buf, req, chan,
                 mpi_err, nerr, my_nleaves, glbl_nleaves>>

\* "Combine kids' data" (lines 711-735), node k of the level onward.
RECURSIVE run_combine(_, _, _, _, _)
run_combine(l2r, md, nsr, nodes, k) ==
  IF k > Len(nodes) THEN l2r
  ELSE LET n == nsr.nodes[nodes[k]]
           W == l2rndps(md)
       IN  IF n.nkids = 0 THEN run_combine(l2r, md, nsr, nodes, k + 1)
           ELSE run_combine(
                  WriteAt(l2r, n.offset * W,
                          l2r_combine(md, RecAt(l2r, n.offset, W),
                                      RecAt(l2r, nsr.nodes[n.kids[1]].offset, W),
                                      RecAt(l2r, nsr.nodes[n.kids[2]].offset, W))),
                  md, nsr, nodes, k + 1)

\* owns_root without the test of the parent pointer.
owns_root_single(nsr) ==
  /\ nsr.levels # <<>>
  /\ Len(nsr.levels[Len(nsr.levels)].nodes) = 1

\* The condition of the root fix-up (lines 750-751): the last level holds one
\* node and that node has no parent.
owns_root(nsr) ==
  /\ nsr.levels # <<>>
  /\ Len(nsr.levels[Len(nsr.levels)].nodes) = 1
  /\ nsr.nodes[nsr.levels[Len(nsr.levels)].nodes[1]].parent = Null

\* "Root" (lines 750-775): the R2L record of the root, on the rank whose last
\* level is the root alone.
run_root(b, md, nsr) ==
  LET last == nsr.levels[Len(nsr.levels)].nodes IN
  IF owns_root(nsr)
  THEN LET os == nsr.nodes[last[1]].offset
       IN  [b EXCEPT !.r2l = WriteAt(@, os * r2lndps(md),
                                     root_r2l(md, RecAt(b.r2l, os, r2lndps(md)),
                                              RecAt(b.l2r, os, l2rndps(md)), 0, 0))]
  ELSE b

\* "Solve QP for kids' values" (lines 791-829), node k of the level onward.
RECURSIVE run_solve(_, _, _, _, _)
run_solve(b, md, nsr, nodes, k) ==
  IF k > Len(nodes) THEN b
  ELSE LET n == nsr.nodes[nodes[k]]
           W == l2rndps(md)
           V == r2lndps(md)
       IN  IF n.nkids = 0 THEN run_solve(b, md, nsr, nodes, k + 1)
           ELSE LET o0 == nsr.nodes[n.kids[1]].offset
                    o1 == nsr.nodes[n.kids[2]].offset
                    S == solve_tracers(md,
                           [pl |-> RecAt(b.l2r, n.offset, W), pr |-> RecAt(b.r2l, n.offset, V),
                            k0l |-> RecAt(b.l2r, o0, W), k0r |-> RecAt(b.r2l, o0, V),
                            k1l |-> RecAt(b.l2r, o1, W), k1r |-> RecAt(b.r2l, o1, V)],
                           0, 0)
                    l2r1 == WriteAt(WriteAt(WriteAt(b.l2r, n.offset * W, S.pl),
                                            o0 * W, S.k0l), o1 * W, S.k1l)
                    r2l1 == WriteAt(WriteAt(b.r2l, o0 * V, S.k0r), o1 * V, S.k1r)
                IN  run_solve([b EXCEPT !.l2r = l2r1, !.r2l = r2l1],
                              md, nsr, nodes, k + 1)

\* run(), leaves to root, level il: set up receives (lines 700-704).
RunL2RRecv(r) ==
  /\ Running /\ pc[r].ph = "l2r_recv"
  /\ LET il == pc[r].il IN
       /\ SetWorld(post_irecvs(World, r, "l2r", l2rndps(md_[r]),
                               ns_[r].levels[il].kids, "kids", il, 1))
       /\ pc' = [pc EXCEPT ![r] = At("l2r_wait", il)]
  /\ UNCHANGED <<xvars, qvars, tree, ncells, heap, eager, ns_, nerr, my_nleaves,
                 glbl_nleaves>>

\* RunL2RWait with the sends to the parents posted before the combine.
RunL2RWait_sendfirst(r) ==
  /\ Running /\ pc[r].ph = "l2r_wait"
  /\ LET il == pc[r].il
         lvl == ns_[r].levels[il]
     IN  /\ AllComplete(World, r, req[r].kids[il])
         /\ LET w1 == post_isends([World EXCEPT !.req[r].kids[il] = waitall(@)],
                                  r, "l2r", l2rndps(md_[r]), lvl.me, "me", il, 1)
            IN  SetWorld([w1 EXCEPT
                            !.buf[r].l2r = run_combine(@, md_[r], ns_[r], lvl.nodes, 1)])
         /\ pc' = [pc EXCEPT ![r] = IF il = NLevels(r) THEN At("l2r_lastwait", il)
                                    ELSE At("l2r_recv", il + 1)]
  /\ UNCHANGED <<xvars, qvars, tree, ncells, heap, eager, ns_, nerr, my_nleaves,
                 glbl_nleaves>>

\* run(), leaves to root, level il: waitall on kids_req, combine, send to
\* parents (lines 706-741).
RunL2RWait(r) ==
  /\ Running /\ pc[r].ph = "l2r_wait"
  /\ LET il == pc[r].il
         lvl == ns_[r].levels[il]
     IN  /\ AllComplete(World, r, req[r].kids[il])
         /\ LET w1 == [World EXCEPT
                         !.req[r].kids[il] = waitall(@),
                         !.buf[r].l2r = run_combine(@, md_[r], ns_[r], lvl.nodes, 1)]
            IN  SetWorld(post_isends(w1, r, "l2r", l2rndps(md_[r]), lvl.me,
                                     "me", il, 1))
         /\ pc' = [pc EXCEPT ![r] = IF il = NLevels(r) THEN At("l2r_lastwait", il)
                                    ELSE At("l2r_recv", il + 1)]
  /\ UNCHANGED <<xvars, qvars, tree, ncells, heap, eager, ns_, nerr, my_nleaves,
                 glbl_nleaves>>

\* run(), last level: waitall on me_req (lines 742-746), then the root
\* (lines 750-775).
RunL2RLastWait(r) ==
  /\ Running /\ pc[r].ph = "l2r_lastwait"
  /\ LET il == pc[r].il IN
       /\ AllComplete(World, r, req[r].me[il])
       /\ req' = [req EXCEPT ![r].me[il] = waitall(@)]
       /\ buf' = [buf EXCEPT ![r] = run_root(@, md_[r], ns_[r])]
       /\ pc' = [pc EXCEPT ![r] = At("r2l_recv", il)]
  /\ UNCHANGED <<xvars, qvars, tree, ncells, heap, eager, ns_, chan, mpi_err,
                 nerr, my_nleaves, glbl_nleaves>>

\* run(), root to leaves, level il: receives from the parents (lines
\* 779-783).
RunR2LRecv(r) ==
  /\ Running /\ pc[r].ph = "r2l_recv"
  /\ LET il == pc[r].il IN
       /\ SetWorld(post_irecvs(World, r, "r2l", r2lndps(md_[r]),
                               ns_[r].levels[il].me, "me", il, 1))
       /\ pc' = [pc EXCEPT ![r] = At("r2l_wait", il)]
  /\ UNCHANGED <<xvars, qvars, tree, ncells, heap, eager, ns_, nerr, my_nleaves,
                 glbl_nleaves>>

\* run(), root to leaves, level il: waitall on me_req, solve, send to kids
\* (lines 785-836).
RunR2LWait(r) ==
  /\ Running /\ pc[r].ph = "r2l_wait"
  /\ LET il == pc[r].il
         lvl == ns_[r].levels[il]
     IN  /\ AllComplete(World, r, req[r].me[il])
         /\ LET w1 == [World EXCEPT
                         !.req[r].me[il] = waitall(@),
                         !.buf[r] = run_solve(@, md_[r], ns_[r], lvl.nodes, 1)]
            IN  SetWorld(post_isends(w1, r, "r2l", r2lndps(md_[r]), lvl.kids,
                                     "kids", il, 1))
         /\ pc' = [pc EXCEPT ![r] = IF il = 1 THEN At("cleanup", 0)
                                    ELSE At("r2l_recv", il - 1)]
  /\ UNCHANGED <<xvars, qvars, tree, ncells, heap, eager, ns_, nerr, my_nleaves,
                 glbl_nleaves>>

\* run(): "Wait on sends to clean up" (lines 839-844); run() returns.
RunCleanup(r) ==
  /\ Running /\ pc[r].ph = "cleanup"
  /\ CleanupReady(r)
  /\ req' = [req EXCEPT ![r] = cleanup(@)]
  /\ pc' = [pc EXCEPT ![r] = At("barrier2", 0)]
  /\ UNCHANGED <<xvars, qvars, tree, ncells, heap, eager, ns_, buf, chan,
                 mpi_err, nerr, my_nleaves, glbl_nleaves>>

\* MPI_Barrier after run() (line 1357) and the step of the trial loop (line
\* 1347): the next trial, or the end of the loop.
NextTrial ==
  /\ Running /\ \A r \in Ranks : pc[r].ph = "barrier2"
  /\ trial' = [r \in Ranks |-> trial[r] + 1]
  /\ pc' = [r \in Ranks |-> IF trial[r] + 1 <= nrepeat THEN At("input", 0)
                             ELSE At("done", 0)]
  /\ UNCHANGED <<call, bfb, qvars, tree, ncells, heap, eager, ns_, buf, req,
                 chan, mpi_err, nerr, my_nleaves, glbl_nleaves>>

NextRun ==
  \/ \E r \in Ranks : QLTInit(r)
  \/ \E r \in Ranks : DeclareTracer(r)
  \/ \E r \in Ranks : EndTracerDeclarations(r)
  \/ \E r \in Ranks : SetInputs(r)
  \/ Barrier
  \/ \E r \in Ranks : RunL2RRecv(r)
  \/ \E r \in Ranks : RunL2RWait(r)
  \/ \E r \in Ranks : RunL2RLastWait(r)
  \/ \E r \in Ranks : RunR2LRecv(r)
  \/ \E r \in Ranks : RunR2LWait(r)
  \/ \E r \in Ranks : RunCleanup(r)
  \/ NextTrial

SpecRun == InitRun /\ [][NextRun]_vars

\* ------------------------------------------------------------------------
\* The declaration interface of one QLT handle, called in any order by a
\* caller that catches the exceptions (specification SpecDecl).

\* The caller makes at most MaxCalls calls of declare_tracer.
MaxCalls == 3

\* The masks the caller passes: every combination of the three bits, and one
\* value beyond them.
Masks == 0..(2 * consistent)

\* The smallest trees only: the interface does not look at the tree.
InitDecl == Init /\ ncells = NRanks

\* QLT::QLT on rank r, the one handle the caller goes on to use.
DeclConstruct(r) ==
  /\ \A q \in Ranks : pc[q].ph = "new"
  /\ QLTInit(r)

\* The caller calls declare_tracer(mask) on the handle of rank r, before or
\* after end_tracer_declarations, and records the mask if the call returns.
CallDeclareTracer(r, mask) ==
  /\ Running /\ pc[r].ph \in {"declare", "input"} /\ call.n < MaxCalls
  /\ LET d == declare_tracer(mdb_[r], mask) IN
       /\ mdb_' = [mdb_ EXCEPT ![r] = d.mdb]
       /\ call' = [n |-> call.n + 1, mask |-> mask, threw |-> d.threw]
       /\ tracers_' = IF d.threw THEN tracers_ ELSE Append(tracers_, mask)
       /\ pc' = [pc EXCEPT ![r] = IF d.threw THEN @ ELSE At(@.ph, @.il + 1)]
  /\ UNCHANGED <<trial, bfb, tree, ncells, heap, eager, ns_, buf, req, chan,
                 mpi_err, nerr, my_nleaves, glbl_nleaves, rhom, gci2lci_, md_>>

NextDecl ==
  \E r \in Ranks :
    \/ DeclConstruct(r)
    \/ \E mask \in Masks : CallDeclareTracer(r, mask)
    \/ EndTracerDeclarations(r)

SpecDecl == InitDecl /\ [][NextDecl]_vars

\* ------------------------------------------------------------------------
\* The queries of a handle whose declarations are ended (specification
\* SpecQuery).

\* The indices the caller passes run from -1 to one past the number of
\* tracers it can have declared.
TracerIdxs == -1..(MaxCalls + 1)

\* What the memory behind trcr2prob may hold: a canonical type, or another
\* value.
StrayValues == {0, problem_type_[1]}

\* The caller calls get_problem_type(tracer_idx) on the handle of rank r and
\* records the index, whether the call threw and the value returned.  For
\* tracer_idx = trcr2prob.extent_int(0) the check of line 679 passes and line
\* 681 reads one entry past the end of trcr2prob: the call returns whatever
\* is there, or the read stops the process.
CallGetProblemType(r, tracer_idx, stray) ==
  /\ Running /\ pc[r].ph = "input"
  /\ IF tracer_idx = Len(md_[r].trcr2prob)
     THEN \/ /\ call' = [n |-> call.n, tracer_idx |-> tracer_idx,
                         threw |-> FALSE, ret |-> stray]
             /\ pc' = pc
          \/ /\ pc' = [pc EXCEPT ![r] = At("abort", 0)]
             /\ call' = call
     ELSE LET ret == QLT_get_problem_type(md_[r], tracer_idx) IN
          /\ call' = [n |-> call.n, tracer_idx |-> tracer_idx,
                      threw |-> ret = -1, ret |-> ret]
          /\ pc' = pc
  /\ UNCHANGED <<trial, bfb, tree, ncells, heap, eager, ns_, buf, req, chan,
                 mpi_err, nerr, my_nleaves, glbl_nleaves, tracers_, rhom,
                 gci2lci_, mdb_, md_>>

NextQuery ==
  \E r \in Ranks :
    \/ DeclConstruct(r)
    \/ \E mask \in Masks : CallDeclareTracer(r, mask)
    \/ EndTracerDeclarations(r)
    \/ \E tracer_idx \in TracerIdxs, stray \in StrayValues :
         CallGetProblemType(r, tracer_idx, stray)

SpecQuery == InitDecl /\ [][NextQuery]_vars

\* ------------------------------------------------------------------------
\* BfbTreeAllReducer on every rank (specification SpecBfb), built for the
\* host (impl::OnGpu is false).

\* The caller reduces at most MaxFields fields.
MaxFields == 2

\* The caller's value of field f in cell c.
SendValue(c, f) == c + f + 1

\* The caller's send array on rank r, formatted send(nlocal, nfield): the
\* cells of the rank in depth-first order.
SendArray(r, nfield) ==
  LET cells == SelectSeq(LeafSeq(tree), LAMBDA i : tree[i].rank = r)
  IN  [k \in 1..(Len(cells) * nfield) |->
         SendValue(tree[cells[((k - 1) % Len(cells)) + 1]].cellidx,
                   (k - 1) \div Len(cells))]

\* BfbTreeAllReducer::get_host_buffers_sizes: buf1; buf2 is 0.
get_host_buffers_sizes(b, nsr) == (0 + nsr.nslots) * b.nfield_

\* BfbTreeAllReducer::finish_setup: bd_ if set_host_buffers was not called;
\* 'ok' is the assertion on the size of a buffer that was set.
finish_setup(b, nsr) ==
  IF Len(b.bd_) > 0
  THEN [b |-> b, ok |-> Len(b.bd_) = get_host_buffers_sizes(b, nsr)]
  ELSE [b |-> [b EXCEPT !.bd_ = Zeros(get_host_buffers_sizes(b, nsr))], ok |-> TRUE]

\* BfbTreeAllReducer::get_send_host on the host: send.data(); 'ok' is the
\* assertion on the extent of send.
get_send_host(b, send) ==
  [data |-> send, ok |-> Len(send) = b.nlocal_ * b.nfield_]

\* BfbTreeAllReducer::allreduce: recv after the call.
allreduce(b, send, recv) ==
  LET send_host == get_send_host(b, send) IN recv

\* BfbTreeAllReducer::BfbTreeAllReducer on rank r for nfield fields, the same
\* number on every rank.
BfbConstruct(r, nfield) ==
  /\ Running /\ pc[r].ph = "new"
  /\ \A q \in Ranks : pc[q].ph # "new" => bfb[q].nfield_ = nfield
  /\ ns_' = [ns_ EXCEPT ![r] = analyze(r, ncells, tree, heap[r])]
  /\ bfb' = [bfb EXCEPT ![r] =
               [NoBfb EXCEPT !.nfield_ = nfield,
                             !.nlocal_ = Cardinality({i \in LeafIdxs(tree) :
                                                        tree[i].rank = r})]]
  /\ pc' = [pc EXCEPT ![r] = IF ns_'[r].ok THEN At("setup", 0) ELSE At("abort", 0)]
  /\ UNCHANGED <<trial, call, qvars, tree, ncells, heap, eager, buf, req, chan,
                 mpi_err, nerr, my_nleaves, glbl_nleaves>>

\* finish_setup on rank r.
BfbFinishSetup(r) ==
  /\ Running /\ pc[r].ph = "setup"
  /\ LET f == finish_setup(bfb[r], ns_[r]) IN
       /\ bfb' = [bfb EXCEPT ![r] = f.b]
       /\ pc' = [pc EXCEPT ![r] = IF f.ok THEN At("ready", 0) ELSE At("abort", 0)]
  /\ UNCHANGED <<trial, call, qvars, tree, ncells, heap, eager, ns_, buf, req,
                 chan, mpi_err, nerr, my_nleaves, glbl_nleaves>>

\* allreduce(send, recv) on rank r, with the caller's values in send and
\* zeros in recv.
BfbAllreduce(r) ==
  /\ Running /\ pc[r].ph = "ready"
  /\ LET send == SendArray(r, bfb[r].nfield_)
         recv == Zeros(bfb[r].nfield_)
     IN  /\ bfb' = [bfb EXCEPT ![r].send = send,
                               ![r].recv = allreduce(bfb[r], send, recv)]
         /\ pc' = [pc EXCEPT ![r] = IF get_send_host(bfb[r], send).ok
                                    THEN At("done", 0) ELSE At("abort", 0)]
  /\ UNCHANGED <<trial, call, qvars, tree, ncells, heap, eager, ns_, buf, req,
                 chan, mpi_err, nerr, my_nleaves, glbl_nleaves>>

NextBfb ==
  \E r \in Ranks :
    \/ \E nfield \in 1..MaxFields : BfbConstruct(r, nfield)
    \/ BfbFinishSetup(r)
    \/ BfbAllreduce(r)

SpecBfb == Init /\ [][NextBfb]_vars

\* ------------------------------------------------------------------------
\* analyze on trees that break its preconditions (specification SpecAnalyze).

\* Tree t with the parent pointer of one node set to another node, or to a
\* node where it should be null, or to null.
BadParentTrees(t) ==
  UNION {{[t EXCEPT ![i].parent = other] :
            other \in (0..Len(t)) \ {t[i].parent}} : i \in DOMAIN t}

\* Tree t of n leaves with the cellidx of one leaf outside [0, n).
BadCellidxTrees(t, n) ==
  {[t EXCEPT ![i].cellidx = c] :
     i \in LeafIdxs(t), c \in {-1} \cup (n..(2 * n - 1))}

\* Tree t with one leaf made the only kid of a new interior node.
OneKidTrees(t) ==
  {Append([t EXCEPT ![i] = TreeNode(-1, 1, <<Len(t) + 1>>, t[i].parent, -1)],
          TreeNode(t[i].rank, 0, <<>>, i, t[i].cellidx)) :
     i \in LeafIdxs(t)}

\* The size of the communicator when only the analysis is looked at.
NPeers == 3

\* The trees of n leaves spread over all ranks of the larger communicator.
PeerTrees(n) ==
  {SetLeaves(Flat(sh, 1, Null), rk, [k \in 1..n |-> k - 1]) :
     sh \in Shapes(n),
     rk \in {f \in [1..n -> 0..(NPeers - 1)] :
               \A q \in 0..(NPeers - 1) : \E k \in 1..n : f[k] = q}}

\* The trees a caller may hand to analyze for n cells.
CallerTrees(n) ==
  Trees(n) \cup PeerTrees(n) \cup UNION {BadParentTrees(t) \cup BadCellidxTrees(t, n)
                        \cup OneKidTrees(t) : t \in Trees(n)}

InitAnalyze ==
  /\ ncells \in NRanks..MaxLeaves
  /\ tree \in CallerTrees(ncells)
  /\ InitRanks
  /\ tracers_ = <<>>
  /\ rhom = <<>>

NextAnalyze == \E r \in Ranks : Analyze(r)

SpecAnalyze == InitAnalyze /\ [][NextAnalyze]_vars

\* ------------------------------------------------------------------------
\* unittest_NodeSets on a deeper tree, with a transport that completes a send
\* only when it is received (specification SpecDeep).

\* The tree (c0, (((c1, c2), c3), (c4, (c5, c6)))) with its leaves on the
\* ranks 0,1,1,0,1,0,0 (rank 1 owns two parents, at one level, of nodes that
\* rank 0 owns at two levels) or 0,0,0,0,0,0,1.
DeepTrees ==
  {SetLeaves(Flat(<< <<>>, << << << <<>>, <<>> >>, <<>> >>,
                              << <<>>, << <<>>, <<>> >> >> >> >>, 1, Null),
             rk, [k \in 1..7 |-> k - 1]) :
     rk \in {<<0, 1, 1, 0, 1, 0, 0>>, <<0, 0, 0, 0, 0, 0, 1>>}}

InitDeep ==
  /\ ncells = 7
  /\ tree \in DeepTrees
  /\ InitRanks
  /\ eager = FALSE
  /\ tracers_ = <<>>
  /\ rhom = <<>>

SpecDeep == InitDeep /\ [][Next]_vars

\* TestQLT::run on the same trees (specification SpecRunDeep).
InitRunDeep ==
  /\ ncells = 7
  /\ tree \in DeepTrees
  /\ InitRanks
  /\ tracers_ \in TracerLists
  /\ rhom \in RhoVectors(ncells)

SpecRunDeep == InitRunDeep /\ [][NextRun]_vars

\* ------------------------------------------------------------------------
\* Properties of the analysis and of test_comm_pattern (specification Spec).

Analysed(r) == pc[r].ph # "new"

AllDone == \A r \in Ranks : pc[r].ph = "done"

\* Whether rank r can take its next step: it has not finished or aborted,
\* and the collective or the waitall it is in, if any, returns.
CanStep(r) ==
  /\ Running
  /\ CASE pc[r].ph \in {"new", "check", "declare", "input", "l2r_recv",
                        "r2l_recv"} -> TRUE
       [] pc[r].ph \in {"allreduce", "barrier", "barrier2"} ->
            \A q \in Ranks : pc[q].ph = pc[r].ph
       [] pc[r].ph = "l2r_wait" -> AllComplete(World, r, req[r].kids[pc[r].il])
       [] pc[r].ph \in {"l2r_lastwait", "r2l_wait"} ->
            AllComplete(World, r, req[r].me[pc[r].il])
       [] pc[r].ph = "cleanup" -> CleanupReady(r)
       [] OTHER -> FALSE

\* The leaves rank r owns, in depth-first order of the tree.
OwnedLeaves(r) == SelectSeq(LeafSeq(tree), LAMBDA i : tree[i].rank = r)

\* levels[0].nodes of rank r (empty when the rank has no level).
Level0(r) == IF ns_[r].levels = <<>> THEN <<>> ELSE ns_[r].levels[1].nodes

\* The sizes of the windows of list lst ("me" or "kids") that rank r
\* exchanges with rank peer, in level order.
WindowSizes(r, lst, peer) ==
  Concat([il \in DOMAIN ns_[r].levels |->
            LET ws == SelectSeq(ns_[r].levels[il][lst], LAMBDA m : m.rank = peer)
            IN  [k \in DOMAIN ws |-> ws[k].size]])

Reverse(q) == [k \in DOMAIN q |-> q[Len(q) + 1 - k]]

\* C2: deadlock freedom.  Once every rank has its NodeSets, the ranks have all
\* finished or some rank can take its next step: no waitall blocks for ever
\* and no rank is stopped by the transport.
C2_DeadlockFree ==
  (\A r \in Ranks : Analysed(r)) => (AllDone \/ \E r \in Ranks : CanStep(r))

\* C3: sender/receiver agreement.  For ranks a # b, the messages a posts
\* to b leafward-to-rootward ('me' windows in level order) and the receives
\* b posts from a ('kids' windows in level order) are equally many and
\* pairwise equally long; likewise rootward-to-leafward, where b sends its
\* 'kids' windows and a receives into its 'me' windows, levels descending.
C3_SendRecvAgreement ==
  \A a, b \in Ranks :
    (a # b /\ Analysed(a) /\ Analysed(b)) =>
      /\ WindowSizes(a, "me", b) = WindowSizes(b, "kids", a)
      /\ Reverse(WindowSizes(b, "kids", a)) = Reverse(WindowSizes(a, "me", b))

\* C4: communication-pattern round trip.  When the pattern has been started
\* and no rank can go on, every owned leaf's slot on every rank holds
\* ncells (ncells - 1) / 2.
C4_RoundTrip ==
  (glbl_nleaves = ncells /\ ~(\E r \in Ranks : CanStep(r))) =>
    \A r \in Ranks : \A k \in DOMAIN Level0(r) :
      buf[r].data[ns_[r].nodes[Level0(r)[k]].offset + 1] = (ncells * (ncells - 1)) \div 2

\* C5: offset uniqueness.  After analyze, the offsets of the nodes of the
\* levels together with those of their kids on other ranks are exactly
\* 0 .. nslots-1, each occurring once; none is -1 or >= nslots.
C5_OffsetUniqueness ==
  \A r \in Ranks :
    Analysed(r) =>
      LET offs == comm_offsets(ns_[r]) IN
        /\ Len(offs) = ns_[r].nslots
        /\ \A k \in DOMAIN offs : offs[k] >= 0 /\ offs[k] < ns_[r].nslots
        /\ \A o \in 0..(ns_[r].nslots - 1) :
             Cardinality({k \in DOMAIN offs : offs[k] = o}) = 1

\* A rank has been analysed that owns interior nodes and holds slots for kids
\* on another rank.
C5_Witness ==
  \E r \in Ranks :
    /\ Analysed(r) /\ ns_[r].nslots >= 4
    /\ Len(LevelNodes(ns_[r])) < ns_[r].nslots
    /\ Len(ns_[r].levels) >= 2

\* C7: leaf contiguity and order.  On every rank levels[0].nodes is the
\* sequence of the leaves the rank owns in depth-first order of the tree,
\* each has nkids = 0, and their offsets are a permutation of
\* 0 .. #owned leaves - 1.
C7_LeafOrder ==
  \A r \in Ranks :
    Analysed(r) =>
      /\ Level0(r) = OwnedLeaves(r)
      /\ \A k \in DOMAIN Level0(r) : ns_[r].nodes[Level0(r)[k]].nkids = 0
      /\ {ns_[r].nodes[Level0(r)[k]].offset : k \in DOMAIN Level0(r)}
           = 0..(Len(OwnedLeaves(r)) - 1)

\* A rank has been analysed that owns several leaves, one of them with its
\* parent on another rank.
C7_Witness ==
  \E r \in Ranks :
    /\ Analysed(r) /\ Len(Level0(r)) >= 3
    /\ \E k \in DOMAIN Level0(r) : tree[tree[Level0(r)[k]].parent].rank # r

\* C8: on every rank the i-th node of levels[0].nodes has offset i.
C8_LeafOffsetsInOrder ==
  \A r \in Ranks :
    Analysed(r) =>
      \A i \in DOMAIN Level0(r) : ns_[r].nodes[Level0(r)[i]].offset = i - 1

\* C9: global leaf count.  The numbers of nodes in levels[0] of all ranks
\* add up to ncells, and every leaf of the tree is in levels[0] of exactly
\* one rank.
C9_GlobalLeafCount ==
  (\A r \in Ranks : Analysed(r)) =>
    /\ SumSeq([k \in 1..NRanks |-> Len(Level0(k - 1))]) = ncells
    /\ \A i \in LeafIdxs(tree) :
         Cardinality({r \in Ranks : i \in Range(Level0(r))}) = 1

\* Every rank has been analysed, and on some rank the removal of empty levels
\* has moved a level down.
C9_Witness ==
  /\ \A r \in Ranks : Analysed(r)
  /\ ncells = MaxLeaves
  /\ \E r \in Ranks : Len(ns_[r].levels) < init_tree(tree, 1, ncells).depth - 1

\* ------------------------------------------------------------------------
\* Properties of QLT (specification SpecRun).

\* The L2R record of cell c as its owner writes it before run().
LeafRecord(md, c) ==
  set_Qm_tracers(md, set_rhom(md, Zeros(l2rndps(md)), 0, rhom[c + 1]), 0, c, 0)

\* The L2R record of tree node i when the tree is reduced on one rank: each
\* node the combination of its kids[0] and kids[1], in that order.
RECURSIVE TreeL2R(_, _)
TreeL2R(md, i) ==
  IF tree[i].nkids = 0 THEN LeafRecord(md, tree[i].cellidx)
  ELSE l2r_combine(md, Zeros(l2rndps(md)), TreeL2R(md, tree[i].kids[1]),
                   TreeL2R(md, tree[i].kids[2]))

\* The R2L records of the leaf cells below tree node i when the tree is
\* solved on one rank; pl and pr are the L2R and R2L records of node i.
RECURSIVE TreeR2L(_, _, _, _)
TreeR2L(md, i, pl, pr) ==
  IF tree[i].nkids = 0 THEN (tree[i].cellidx :> pr)
  ELSE LET S == solve_tracers(md,
                  [pl |-> pl, pr |-> pr,
                   k0l |-> TreeL2R(md, tree[i].kids[1]), k0r |-> Zeros(r2lndps(md)),
                   k1l |-> TreeL2R(md, tree[i].kids[2]), k1r |-> Zeros(r2lndps(md))],
                  0, 0)
       IN  TreeR2L(md, tree[i].kids[1], S.k0l, S.k0r)
             @@ TreeR2L(md, tree[i].kids[2], S.k1l, S.k1r)

\* The R2L record of every cell when the tree is run on one rank.
TreeResult(md) ==
  TreeR2L(md, 1, TreeL2R(md, 1),
          root_r2l(md, Zeros(r2lndps(md)), TreeL2R(md, 1), 0, 0))

\* C1: partition invariance.  When run() has returned on every rank, the
\* root's L2R record and the Qm delivered to every cell are those of the
\* reduction of the same tree and inputs on one rank, whatever the assignment
\* of the leaves to ranks.
C1_PartitionInvariance ==
  AllDone =>
    \A r \in Ranks : \A ref \in {TreeResult(md_[r])} :
      /\ (1 \in DOMAIN ns_[r].nodes /\ ns_[r].nodes[1].rank = r) =>
           RecAt(buf[r].l2r, ns_[r].nodes[1].offset, l2rndps(md_[r]))
             = TreeL2R(md_[r], 1)
      /\ \A k \in DOMAIN Level0(r) : \A ti \in 0..(Len(tracers_) - 1) :
           LET n == ns_[r].nodes[Level0(r)[k]]
           IN  get_Qm(md_[r], buf[r].r2l, n.offset, ti)
                 = get_Qm(md_[r], ref[n.id], 0, ti)

\* Sums below 2^MantBits are exact: no addition of the run rounds.
ExactArithmetic == 2 * SumSeq(rhom) <= 2^MantBits

\* The Qm of tracer ti summed over the cells of all ranks.
GlobalQm(ti) ==
  SumSeq([q \in 1..NRanks |->
    SumSeq([k \in DOMAIN Level0(q - 1) |->
      get_Qm(md_[q - 1], buf[q - 1].r2l,
             ns_[q - 1].nodes[Level0(q - 1)[k]].offset, ti)])])

\* C6: conservation.  After run() has returned on every rank, for every
\* tracer whose type has conserve the Qm of all cells of all ranks add up to
\* the sum of the cells' Qm_prev (in exact arithmetic; solve_node_problem
\* keeps r2l_0 + r2l_1 = r2l_p).
C6_Conservation ==
  (AllDone /\ ExactArithmetic) =>
    \A ti \in 0..(Len(tracers_) - 1) :
      HasBit(tracers_[ti + 1], conserve) =>
        GlobalQm(ti) = SumSeq([c \in 1..ncells |-> Qm_prev(ti, c - 1)])

\* run() has returned everywhere in exact arithmetic for a conserving tracer
\* whose Qm on input did not add up to the sum of Qm_prev.
C6_Witness ==
  /\ AllDone /\ ExactArithmetic
  /\ \E ti \in 0..(Len(tracers_) - 1) :
       /\ HasBit(tracers_[ti + 1], conserve)
       /\ SumSeq([c \in 1..ncells |-> Qm(ti, c - 1)])
            # SumSeq([c \in 1..ncells |-> Qm_prev(ti, c - 1)])

\* Rank r's QLT object has been constructed.
Constructed(r) == pc[r].ph \notin {"new", "abort"}

\* C10: cell numbering round trip.  After construction, get_owned_glblcells
\* gives nlclcells() ids, exactly those of the leaves the rank owns, and
\* gci2lci(gcis[i]) = i for every i.
C10_CellNumberingRoundTrip ==
  \A r \in Ranks :
    Constructed(r) =>
      LET gcis == get_owned_glblcells(ns_[r]) IN
        /\ Len(gcis) = nlclcells(ns_[r])
        /\ Len(gcis) = Len(OwnedLeaves(r))
        /\ Range(gcis) = {tree[i].cellidx : i \in Range(OwnedLeaves(r))}
        /\ \A i \in 0..(nlclcells(ns_[r]) - 1) :
             gci2lci(gci2lci_[r], gcis[i + 1]) = i

\* A QLT object has been constructed on a rank whose cells' local indices are
\* not in the order of levels[0].nodes.
C10_Witness ==
  \E r \in Ranks :
    /\ Constructed(r) /\ nlclcells(ns_[r]) >= 3
    /\ \E k \in DOMAIN Level0(r) : ns_[r].nodes[Level0(r)[k]].offset # k - 1

\* The rank that owns the root of the tree: init_tree gives every interior
\* node the rank of its kids[0], so it is the rank of the first leaf.
RootRank == tree[LeafSeq(tree)[1]].rank

\* Rank r is past the root step of run().
PastRoot(r) == pc[r].ph \in {"r2l_recv", "r2l_wait", "cleanup", "done"}

\* C11: the root fix-up is done by exactly one rank.  On every constructed
\* rank the condition of the fix-up (the last level has exactly one node and
\* that node has no parent) holds if and only if the rank owns the root of
\* the tree.
C11_RootFixupOnce ==
  \A r \in Ranks : Constructed(r) => (owns_root(ns_[r]) <=> r = RootRank)

\* A rank that does not own the root has passed the root step of run() with
\* a last level of exactly one node.
C11_Witness ==
  \E r \in Ranks :
    /\ PastRoot(r) /\ r # RootRank
    /\ Len(ns_[r].levels[Len(ns_[r].levels)].nodes) = 1

\* ------------------------------------------------------------------------
\* Properties of the declaration interface (specification SpecDecl).

\* The handle the caller uses, if it has constructed one.
Handles == {r \in Ranks : pc[r].ph \in {"declare", "input"}}

\* end_tracer_declarations has been called on the handle of rank r.
Closed(r) == pc[r].ph = "input"

\* The masks s, st, cs, cst, t, ct.
AcceptedMasks ==
  {shapepreserve, shapepreserve + consistent, conserve + shapepreserve,
   conserve + shapepreserve + consistent, consistent, conserve + consistent}

\* mask | consistent.
WithConsistent(mask) == IF HasBit(mask, consistent) THEN mask ELSE mask + consistent

\* C12: problem-type mask acceptance.  Before end_tracer_declarations, a call
\* of declare_tracer returns for exactly the masks s, st, cs, cst, t, ct and
\* throws for every other mask; the builder holds one tracer for each call
\* that returned and none for a call that threw.
C12_MaskAcceptance ==
  \A r \in Handles :
    ~Closed(r) =>
      /\ call.n > 0 => (call.threw <=> call.mask \notin AcceptedMasks)
      /\ Len(mdb_[r].trcr2prob) = Len(tracers_)

\* declare_tracer has thrown for a mask after an accepted one, before
\* end_tracer_declarations.
C12_Witness ==
  \E r \in Handles :
    /\ ~Closed(r) /\ call.threw
    /\ Len(tracers_) >= 1 /\ call.n > Len(tracers_)

\* C13: canonicalization and tracer indexing.  After accepted declare_tracer
\* calls and end_tracer_declarations, get_num_tracers() is the number of those
\* calls and get_problem_type(i) is the mask of the i-th call with consistent
\* set.
C13_TracerIndexing ==
  \A r \in Handles :
    Closed(r) =>
      /\ get_num_tracers(md_[r]) = Len(tracers_)
      /\ \A i \in 0..(Len(tracers_) - 1) :
           QLT_get_problem_type(md_[r], i) = WithConsistent(tracers_[i + 1])

\* A closed handle whose tracers were not declared in the order of their
\* types' blocks, one of them with a noncanonical mask.
C13_Witness ==
  \E r \in Handles :
    /\ Closed(r) /\ Len(tracers_) >= 2
    /\ \E i \in DOMAIN tracers_ : tracers_[i] # WithConsistent(tracers_[i])
    /\ \E i \in DOMAIN md_[r].bidx2trcr : md_[r].bidx2trcr[i] # i - 1

\* C14: lifecycle.  Every call of declare_tracer after end_tracer_declarations
\* throws and leaves the tracer list, the metadata tables and the buffers as
\* they were.
C14_DeclareAfterClose ==
  [][\A r \in Handles :
       (Closed(r) /\ call'.n # call.n) =>
         /\ call'.threw
         /\ md_'[r] = md_[r] /\ mdb_'[r] = mdb_[r]
         /\ buf'[r] = buf[r] /\ tracers_' = tracers_]_vars

\* declare_tracer has been called with an accepted mask after
\* end_tracer_declarations on a handle with a tracer.
C14_Witness ==
  \E r \in Handles :
    /\ Closed(r) /\ call.n > Len(tracers_) /\ Len(md_[r].trcr2prob) >= 1
    /\ call.mask \in AcceptedMasks /\ call.threw

\* ------------------------------------------------------------------------
\* Properties of BfbTreeAllReducer (specification SpecBfb).

\* C15: the all-reducer's result.  After allreduce(send, recv) has been called
\* on all ranks, recv[f] is on every rank, for every field f, the sum of the
\* field's send values over all leaves of the tree.
C15_AllreduceResult ==
  AllDone =>
    \A r \in Ranks : \A f \in 0..(bfb[r].nfield_ - 1) :
      bfb[r].recv[f + 1] = SumSeq([c \in 1..ncells |-> SendValue(c - 1, f)])

\* ------------------------------------------------------------------------
\* Properties of the trial loop of TestQLT::run (specification SpecRun).

\* The leaves' R2L records of rank r, in the order of levels[0].
LeafR2L(r) ==
  [k \in DOMAIN ns_[r].levels[1].nodes |->
     RecAt(buf[r].r2l, ns_[r].nodes[ns_[r].levels[1].nodes[k]].offset,
           r2lndps(md_[r]))]

\* C16: repeatability of run().  Every invocation of run() terminates on all
\* ranks (once all handles are constructed the ranks have all finished the
\* trials or some rank can take its next step), and with the same leaf inputs
\* written again a later invocation leaves the leaves' R2L records as the
\* first invocation left them (no step of a later trial changes them).
C16_Repeatability ==
  /\ []((\A r \in Ranks : Constructed(r)) =>
         (AllDone \/ \E r \in Ranks : CanStep(r)))
  /\ [][\A r \in Ranks : trial[r] >= 1 => LeafR2L(r)' = LeafR2L(r)]_vars

\* ------------------------------------------------------------------------
\* Properties of analyze on malformed trees (specification SpecAnalyze).

\* analyze has returned a NodeSets on rank r.
Returned(r) == pc[r].ph = "check"

\* The root has a parent, or a kid of some node has another parent.
BadParent(t) ==
  \/ t[1].parent # Null
  \/ \E i \in DOMAIN t : \E k \in 1..t[i].nkids : t[t[i].kids[k]].parent # i

\* C17: analyze rejects a malformed tree.  When the root's parent pointer is
\* not null, or a kid of some node has a parent pointer that is not that node,
\* analyze returns no NodeSets on any rank: the rank that calls it is stopped
\* by the failed assertion.
C17_ParentPointersChecked ==
  BadParent(tree) =>
    \A r \in Ranks : ~Returned(r) /\ (Analysed(r) => pc[r].ph = "abort" /\ ~ns_[r].ok)

C17_Witness ==
  /\ tree[1].parent = Null /\ BadParent(tree)
  /\ \E r \in Ranks : pc[r].ph = "abort"

\* C18: analyze rejects every tree with a leaf whose cellidx is outside
\* [0, ncells), wherever the leaf sits in the traversal: no rank gets a
\* NodeSets for such a tree.
C18_CellidxRangeChecked ==
  (\E i \in LeafIdxs(tree) : tree[i].cellidx < 0 \/ tree[i].cellidx >= ncells) =>
    \A r \in Ranks : ~Returned(r)

\* C19: analyze rejects every tree with a node whose number of kids is
\* neither 0 nor 2: no rank gets a NodeSets for such a tree.
C19_TwoKidsChecked ==
  (\E i \in DOMAIN tree : tree[i].nkids \notin {0, 2}) =>
    \A r \in Ranks : ~Returned(r)

\* ------------------------------------------------------------------------
\* Properties of gci2lci (specification SpecRun).

\* The ids of the leaves rank r owns.
OwnedIds(r) == {tree[i].cellidx : i \in Range(OwnedLeaves(r))}

\* C20: gci2lci on an id that is not a cell of the rank.  On a constructed
\* handle gci2lci(gci) raises an error (-1 here) and returns no index for
\* every gci that is not the id of a leaf the rank owns: ids of interior
\* nodes, ids of other ranks' leaves, ids that no node has.
C20_UnknownCellRejected ==
  \A r \in Ranks :
    Constructed(r) =>
      \A gci \in (-1)..(2 * ncells) :
        gci \notin OwnedIds(r) => gci2lci(gci2lci_[r], gci) = -1

\* A constructed handle whose rank owns an interior node and holds the node
\* of another rank's leaf: gci2lci raises for both ids.
C20_Witness ==
  \E r \in Ranks :
    /\ Constructed(r)
    /\ \E i, j \in DOMAIN ns_[r].nodes :
         /\ ns_[r].nodes[i].rank = r /\ ns_[r].nodes[i].id >= ncells
         /\ ns_[r].nodes[j].rank # r /\ ns_[r].nodes[j].id < ncells
         /\ gci2lci(gci2lci_[r], ns_[r].nodes[i].id) = -1
         /\ gci2lci(gci2lci_[r], ns_[r].nodes[j].id) = -1

\* ------------------------------------------------------------------------
\* Properties of the NodeSets analyze returns (specification SpecAnalyze).

\* C21: peer coalescing.  In every level of a NodeSets analyze has returned,
\* the peer ranks of the 'me' list are strictly increasing and none is the
\* local rank, the same holds for the 'kids' list, and me_req and kids_req
\* are as long as me and kids.
C21_PeerCoalescing ==
  \A r \in Ranks :
    Returned(r) =>
      \A il \in DOMAIN ns_[r].levels : \A lst \in {"me", "kids"} :
        LET mmds == ns_[r].levels[il][lst] IN
          /\ \A i \in DOMAIN mmds : mmds[i].rank # r
          /\ \A i, j \in DOMAIN mmds : i < j => mmds[i].rank < mmds[j].rank
          /\ Len(req[r][lst][il]) = Len(mmds)

\* A NodeSets with a level that exchanges messages with two peers.
C21_Witness ==
  \E r \in Ranks :
    /\ Returned(r)
    /\ \E il \in DOMAIN ns_[r].levels :
         Len(ns_[r].levels[il].me) >= 2 \/ Len(ns_[r].levels[il].kids) >= 2

\* ------------------------------------------------------------------------
\* Properties of the requests of run() (specification SpecRun).

\* C22: deferred sends are waited on in the clean-up.  When a rank reaches the
\* clean-up loop of run(), every entry of me_req of every level but the last
\* still holds the request of the send posted from that level's 'me' window
\* in the leaves-to-root sweep, so that the waitall of the clean-up completes
\* that send.
C22_DeferredSendsWaited ==
  \A r \in Ranks :
    pc[r].ph = "cleanup" =>
      \A il \in 1..(NLevels(r) - 1) : \A i \in DOMAIN req[r].me[il] :
        req[r].me[il][i].kind = "isend" /\ req[r].me[il][i].b = "l2r"

\* C23: request-slot hygiene.  No step replaces the request in an entry of
\* me_req or kids_req by the request of a new isend or irecv while the entry
\* holds a request that no waitall has completed, and when run() has returned
\* on a rank every request in its entries has been completed by a waitall.
C23_RequestSlotHygiene ==
  /\ [][\A r \in Ranks : \A lst \in {"me", "kids"} :
          \A il \in DOMAIN req[r][lst] : \A i \in DOMAIN req[r][lst][il] :
            (req[r][lst][il][i].kind # "null" /\ ~req[r][lst][il][i].waited) =>
              /\ req'[r][lst][il][i].kind = req[r][lst][il][i].kind
              /\ req'[r][lst][il][i].b = req[r][lst][il][i].b]_vars
  /\ [](\A r \in Ranks :
          pc[r].ph \in {"barrier2", "done"} =>
            \A lst \in {"me", "kids"} :
              \A il \in DOMAIN req[r][lst] : \A i \in DOMAIN req[r][lst][il] :
                req[r][lst][il][i].kind # "null" => req[r][lst][il][i].waited)

\* ------------------------------------------------------------------------
\* Properties of the buffers (specifications Spec, SpecDeep and SpecRun).

\* The positions [slot * W, slot * W + W) of buffer b.
SlotPositions(b, slot, W) == {<<b, k>> : k \in (slot * W)..(slot * W + W - 1)}

\* The positions of the windows of mmds in buffer b.
WindowPositions(b, mmds, W) ==
  UNION {{<<b, k>> : k \in (mmds[i].offset * W)..((mmds[i].offset + mmds[i].size) * W - 1)} :
           i \in DOMAIN mmds}

\* The positions the next step of rank r writes, or posts a receive into:
\* in run() when tracers are declared, else in test_comm_pattern.
WrittenPositions(r) ==
  LET nsr == ns_[r]
      isrun == tracers_ # <<>>
      up == IF isrun THEN "l2r" ELSE "data"
      down == IF isrun THEN "r2l" ELSE "data"
      U == IF isrun THEN l2rndps(md_[r]) ELSE 1
      V == IF isrun THEN r2lndps(md_[r]) ELSE 1
      lvl == nsr.levels[pc[r].il]
      inner == {lvl.nodes[k] : k \in {j \in DOMAIN lvl.nodes : nsr.nodes[lvl.nodes[j]].nkids > 0}}
      kidsof(n) == {nsr.nodes[n].kids[j] : j \in 1..nsr.nodes[n].nkids}
      relax == \E t \in Range(md_[r].trcr2prob) : ~HasBit(t, shapepreserve)
  IN  CASE pc[r].ph = "input" ->
             UNION {SlotPositions("l2r", nsr.nodes[n].offset, U) : n \in Range(nsr.levels[1].nodes)}
        [] pc[r].ph = "l2r_recv" -> WindowPositions(up, lvl.kids, U)
        [] pc[r].ph = "l2r_wait" ->
             UNION {SlotPositions(up, nsr.nodes[n].offset, U) : n \in inner}
        [] pc[r].ph = "l2r_lastwait" ->
             IF isrun /\ owns_root(nsr)
             THEN SlotPositions("r2l", nsr.nodes[lvl.nodes[1]].offset, V)
             ELSE {}
        [] pc[r].ph = "r2l_recv" -> WindowPositions(down, lvl.me, V)
        [] pc[r].ph = "r2l_wait" ->
             UNION {UNION {SlotPositions(down, nsr.nodes[kid].offset, V) : kid \in kidsof(n)}
                      : n \in inner}
             \cup (IF isrun /\ relax
                   THEN UNION {UNION {SlotPositions("l2r", nsr.nodes[x].offset, U) :
                                        x \in {n} \cup kidsof(n)} : n \in inner}
                   ELSE {})
        [] OTHER -> {}

\* C24: send-buffer safety.  Whenever a rank is about to write positions of a
\* buffer (by its inputs, a combine, a solve or a pass, or by posting a
\* receive into a window), no message it sent earlier from a window of the
\* same buffer holding one of these positions is still to be received by its
\* peer.
C24_SendBufferSafety ==
  \A r \in Ranks :
    CanStep(r) =>
      \A x \in WrittenPositions(r) : \A q \in Ranks : \A k \in DOMAIN chan[r][q] :
        ~(/\ chan[r][q][k].b = x[1]
          /\ chan[r][q][k].start <= x[2]
          /\ x[2] < chan[r][q][k].start + chan[r][q][k].len)

\* ------------------------------------------------------------------------
\* Properties of the windows of two ranks (specification Spec).

\* The ids of the nodes in the slots of the windows of list lst ("me" or
\* "kids") that rank r exchanges with rank peer: one sequence of ids a
\* window, in level order.
WindowIds(r, lst, peer) ==
  Concat([il \in DOMAIN ns_[r].levels |->
            LET ws == SelectSeq(ns_[r].levels[il][lst], LAMBDA m : m.rank = peer)
            IN  [k \in DOMAIN ws |->
                   [j \in 1..ws[k].size |->
                      ns_[r].nodes[CHOOSE n \in DOMAIN ns_[r].nodes :
                                     ns_[r].nodes[n].offset = ws[k].offset + j - 1].id]]])

\* C25: slot alignment inside a message.  For ranks a # b, the k-th message
\* a sends to b leaves to root and the k-th receive b posts from a have, slot
\* by slot, the same tree node (equal ids); root to leaves the same windows
\* are used in descending level order, so the same holds there.
C25_SlotAlignment ==
  \A a, b \in Ranks :
    (a # b /\ Returned(a) /\ Returned(b)) =>
      /\ WindowIds(a, "me", b) = WindowIds(b, "kids", a)
      /\ Reverse(WindowIds(b, "kids", a)) = Reverse(WindowIds(a, "me", b))

\* ------------------------------------------------------------------------
\* Properties of the order of the steps of run() (specification SpecRun).

\* The messages of the send that rank r posted from window i of list lst of
\* level il that wait in a channel after this step carry the values buffer b
\* holds after the step: the send was posted after the level's computation.
SendsAfterCompute(r, b, lst, il) ==
  \A q \in Ranks : \A k \in DOMAIN chan'[r][q] :
    LET msg == chan'[r][q][k]
    IN  (msg.mid[1] = b /\ msg.mid[2] = lst /\ msg.mid[3] = il
         /\ (k > Len(chan[r][q]) \/ chan[r][q][k] # msg)) =>
          msg.vals = SubSeq(buf'[r][b], msg.start + 1, msg.start + msg.len)

\* The slots of buffer b of the nodes of level il of rank r that have kids.
ParentSlots(r, b, il) ==
  {p \in DOMAIN buf[r][b] :
     \E k \in DOMAIN ns_[r].levels[il].nodes :
       LET n == ns_[r].nodes[ns_[r].levels[il].nodes[k]]
           W == IF b = "l2r" THEN l2rndps(md_[r]) ELSE r2lndps(md_[r])
       IN  n.nkids > 0 /\ p - 1 \in (n.offset * W)..(n.offset * W + W - 1)}

\* The steps of rank r within one level, and from level to level.
StepOrder(r) ==
  LET il == pc[r].il
      ph == pc[r].ph
  IN  /\ (ph = "l2r_recv" /\ pc'[r] # pc[r]) =>
           /\ pc'[r] = At("l2r_wait", il)
           /\ \A i \in DOMAIN req'[r].kids[il] :
                req'[r].kids[il][i].kind = "irecv" /\ ~req'[r].kids[il][i].waited
           /\ \A i \in DOMAIN req[r].me[il] :
                ~(req'[r].me[il][i].kind = "isend" /\ ~req'[r].me[il][i].waited)
      /\ (ph \in {"l2r_recv", "l2r_wait"} /\ pc'[r] = pc[r]) =>
           \A p \in ParentSlots(r, "l2r", il) : buf'[r].l2r[p] = buf[r].l2r[p]
      /\ (ph = "l2r_wait" /\ pc'[r] # pc[r]) =>
           /\ \A i \in DOMAIN req[r].kids[il] :
                /\ req[r].kids[il][i].kind = "irecv" /\ req[r].kids[il][i].arrived
                /\ ~req[r].kids[il][i].waited
                /\ req'[r].kids[il][i].waited
           /\ \A i \in DOMAIN req'[r].me[il] :
                req'[r].me[il][i].kind = "isend" /\ req'[r].me[il][i].b = "l2r"
           /\ SendsAfterCompute(r, "l2r", "me", il)
           /\ pc'[r] = IF il = NLevels(r) THEN At("l2r_lastwait", il)
                       ELSE At("l2r_recv", il + 1)
      /\ (ph = "l2r_lastwait" /\ pc'[r] # pc[r]) => pc'[r] = At("r2l_recv", NLevels(r))
      /\ (ph = "r2l_recv" /\ pc'[r] # pc[r]) =>
           /\ pc'[r] = At("r2l_wait", il)
           /\ \A i \in DOMAIN req'[r].me[il] :
                req'[r].me[il][i].kind = "irecv" /\ ~req'[r].me[il][i].waited
           /\ \A i \in DOMAIN req[r].kids[il] :
                ~(req'[r].kids[il][i].kind = "isend" /\ ~req'[r].kids[il][i].waited)
      /\ (ph = "r2l_wait" /\ pc'[r] # pc[r]) =>
           /\ \A i \in DOMAIN req[r].me[il] :
                /\ req[r].me[il][i].kind = "irecv" /\ req[r].me[il][i].arrived
                /\ ~req[r].me[il][i].waited
                /\ req'[r].me[il][i].waited
           /\ \A i \in DOMAIN req'[r].kids[il] :
                req'[r].kids[il][i].kind = "isend" /\ req'[r].kids[il][i].b = "r2l"
           /\ SendsAfterCompute(r, "r2l", "kids", il)
           /\ pc'[r] = IF il = 1 THEN At("cleanup", 0) ELSE At("r2l_recv", il - 1)
      /\ (pc'[r].ph = "l2r_recv" /\ ph \notin {"l2r_recv", "l2r_wait"}) => pc'[r].il = 1

\* C26: per-level step ordering.  Leaves to root a rank visits its levels in
\* ascending order and at each level posts all receives into the kids
\* windows, then waits on kids_req, then combines, then posts the sends from
\* the me windows (which carry the combined values); root to leaves it
\* visits them in descending order: receives into the me windows, the wait on
\* me_req, the solve, the sends from the kids windows.
C26_StepOrdering == [][\A r \in Ranks : StepOrder(r)]_vars

\* A rank of three levels or more has sent combined values to a parent on
\* another rank and is on its way back down.
C26_Witness ==
  \E r \in Ranks :
    /\ NLevels(r) >= 3 /\ pc[r].ph = "r2l_wait" /\ pc[r].il = 2
    /\ \E i \in DOMAIN req[r].kids[2] : req[r].kids[2][i].kind = "irecv"
    /\ \E il \in 2..NLevels(r) : ns_[r].levels[il].me # <<>>
                                   /\ ns_[r].levels[il].me[1].rank # r

\* ------------------------------------------------------------------------
\* Properties of the levels and links of the NodeSets analyze returns
\* (specification SpecAnalyze).

\* The tree as init_tree leaves it: every node with its rank and id.
RankedTree == init_tree(tree, 1, ncells).t

\* The level of node i of a tree: 0 for a leaf, else 1 + the maximum over its
\* kids.
RECURSIVE TreeLevel(_, _)
TreeLevel(t, i) ==
  IF t[i].nkids = 0 THEN 0
  ELSE 1 + Max(TreeLevel(t, t[i].kids[1]),
               IF t[i].nkids >= 2 THEN TreeLevel(t, t[i].kids[2]) ELSE -1)

\* The levels of rank r that hold tree node i.
LevelsOf(r, i) ==
  {il \in DOMAIN ns_[r].levels :
     \E k \in DOMAIN ns_[r].levels[il].nodes : ns_[r].levels[il].nodes[k] = i}

\* C27: level dependency.  In a NodeSets analyze has returned on rank r, a kid
\* of a node of levels[i] that r owns lies in a level below i, the node's
\* parent, when r owns it, lies in a level above i, and the levels are the
\* tree levels (1 + max over the kids, leaves at 0) in their order: of two
\* nodes the one with the lower tree level is in the lower level, and nodes
\* of one level have one tree level.
C27_LevelDependency ==
  \A r \in Ranks :
    Returned(r) =>
      \A i \in DOMAIN ns_[r].levels : \A kn \in DOMAIN ns_[r].levels[i].nodes :
        LET n == ns_[r].levels[i].nodes[kn]
            t == RankedTree
        IN  /\ \A k \in 1..t[n].nkids :
                 t[t[n].kids[k]].rank = r =>
                   LevelsOf(r, t[n].kids[k]) # {}
                   /\ \A j \in LevelsOf(r, t[n].kids[k]) : j < i
            /\ (t[n].parent # Null /\ t[t[n].parent].rank = r) =>
                 LevelsOf(r, t[n].parent) # {}
                 /\ \A k \in LevelsOf(r, t[n].parent) : k > i
            /\ \A j \in DOMAIN ns_[r].levels : \A km \in DOMAIN ns_[r].levels[j].nodes :
                 LET m == ns_[r].levels[j].nodes[km]
                 IN  (TreeLevel(t, n) < TreeLevel(t, m)) <=> (i < j)

\* A rank whose levels are not consecutive tree levels (an empty level was
\* removed) and that owns a node together with its parent and with a kid.
C27_Witness ==
  \E r \in Ranks :
    /\ Returned(r)
    /\ \E i \in DOMAIN ns_[r].levels :
         TreeLevel(RankedTree, ns_[r].levels[i].nodes[1]) # i - 1
    /\ \E n \in DOMAIN tree :
         /\ RankedTree[n].rank = r /\ tree[n].nkids = 2 /\ tree[n].parent # Null
         /\ RankedTree[tree[n].parent].rank = r
         /\ RankedTree[tree[n].kids[1]].rank = r
\* The number of places tree node i has in the levels of rank r.
Places(r, i) ==
  Cardinality({x \in UNION {{<<il, k>> : k \in DOMAIN ns_[r].levels[il].nodes} :
                              il \in DOMAIN ns_[r].levels} :
                 ns_[r].levels[x[1]].nodes[x[2]] = i})

\* C28: the levels hold exactly the owned nodes.  In a NodeSets analyze has
\* returned on rank r every node of every level has rank r (in the NodeSets
\* and in the tree), every tree node of rank r is in the levels exactly once,
\* no level is empty, and a node of the NodeSets that r does not own (a kid on
\* another rank, a parent on another rank) is in no level.
C28_LevelsHoldOwnedNodes ==
  \A r \in Ranks :
    Returned(r) =>
      /\ \A il \in DOMAIN ns_[r].levels :
           /\ ns_[r].levels[il].nodes # <<>>
           /\ \A k \in DOMAIN ns_[r].levels[il].nodes :
                LET n == ns_[r].levels[il].nodes[k]
                IN  ns_[r].nodes[n].rank = r /\ RankedTree[n].rank = r
      /\ \A i \in DOMAIN tree : RankedTree[i].rank = r => Places(r, i) = 1
      /\ \A i \in DOMAIN ns_[r].nodes : ns_[r].nodes[i].rank # r => Places(r, i) = 0

\* A rank that holds a kid of another rank and a parent of another rank, and
\* that had an empty level removed.
C28_Witness ==
  \E r \in Ranks :
    /\ Returned(r)
    /\ \E i, j \in DOMAIN ns_[r].nodes :
         /\ ns_[r].nodes[i].rank # r /\ ns_[r].nodes[i].nkids > 0
         /\ ns_[r].nodes[j].rank # r /\ ns_[r].nodes[j].nkids = 0
         /\ Places(r, i) = 0 /\ Places(r, j) = 0
    /\ Len(ns_[r].levels) < init_tree(tree, 1, ncells).depth
\* C29: parent links.  In a NodeSets analyze has returned on rank r every
\* node r owns other than the root of the tree has a parent in the NodeSets,
\* the node of its parent in the tree, with that parent's id and rank, whether
\* r owns the parent or not; the root, when r owns it, has a null parent.
C29_ParentLinks ==
  \A r \in Ranks :
    Returned(r) =>
      \A n \in DOMAIN ns_[r].nodes :
        ns_[r].nodes[n].rank = r =>
          IF n = 1 THEN ns_[r].nodes[n].parent = Null
          ELSE LET p == ns_[r].nodes[n].parent
               IN  /\ p # Null /\ p \in DOMAIN ns_[r].nodes
                   /\ p = tree[n].parent
                   /\ ns_[r].nodes[p].id = RankedTree[tree[n].parent].cellidx
                   /\ ns_[r].nodes[p].rank = RankedTree[tree[n].parent].rank

\* A rank that owns the root, a node whose parent it owns and a node whose
\* parent is on another rank.
C29_Witness ==
  \E r \in Ranks :
    /\ Returned(r)
    /\ 1 \in DOMAIN ns_[r].nodes /\ ns_[r].nodes[1].rank = r
    /\ ns_[r].nodes[1].parent = Null
    /\ \E n, m \in DOMAIN ns_[r].nodes :
         /\ ns_[r].nodes[n].rank = r /\ ns_[r].nodes[m].rank = r
         /\ ns_[r].nodes[n].parent # Null /\ ns_[r].nodes[m].parent # Null
         /\ ns_[r].nodes[ns_[r].nodes[n].parent].rank = r
         /\ ns_[r].nodes[ns_[r].nodes[m].parent].rank # r

\* C30: the kids on other ranks are records without kids.  In a NodeSets
\* analyze has returned on rank r every kid of an owned node that is on
\* another rank has nkids = 0, also when that kid has a kid of rank r in the
\* tree.
C30_PeerKidsAreLeaves ==
  \A r \in Ranks :
    Returned(r) =>
      \A n \in DOMAIN ns_[r].nodes :
        ns_[r].nodes[n].rank = r =>
          \A k \in DOMAIN ns_[r].nodes[n].kids :
            LET kid == ns_[r].nodes[n].kids[k]
            IN  ns_[r].nodes[kid].rank # r => ns_[r].nodes[kid].nkids = 0

\* The slots of a window.
WindowSlots(mmd) == mmd.offset..(mmd.offset + mmd.size - 1)

\* The nodes of level il of rank r whose parent is on another rank, and the
\* kids on other ranks of the nodes of that level.
FarMe(r, il) ==
  {n \in Range(ns_[r].levels[il].nodes) :
     ns_[r].nodes[n].parent # Null /\ ns_[r].nodes[ns_[r].nodes[n].parent].rank # r}

FarKids(r, il) ==
  {kid \in UNION {Range(ns_[r].nodes[n].kids) : n \in Range(ns_[r].levels[il].nodes)} :
     ns_[r].nodes[kid].rank # r}

\* All windows of rank r: <<list, level, index>>.
AllWindows(r) ==
  UNION {{<<lst, il, i>> : i \in DOMAIN ns_[r].levels[il][lst]} :
           lst \in {"me", "kids"}, il \in DOMAIN ns_[r].levels}

\* C31: window contents.  In a NodeSets analyze has returned on rank r, each
\* window of a level's 'me' list covers exactly the offsets of the level's
\* nodes whose parent is on the window's peer rank, each window of its 'kids'
\* list exactly the offsets of the kids of the level's nodes that are on the
\* peer rank, every such node is in a window, the windows of the rank are
\* pairwise disjoint, and no window holds the slot of a node exchanged
\* locally (an owned node whose parent is owned or null).
C31_WindowContents ==
  \A r \in Ranks :
    Returned(r) =>
      /\ \A il \in DOMAIN ns_[r].levels :
           /\ \A i \in DOMAIN ns_[r].levels[il].me :
                LET mmd == ns_[r].levels[il].me[i]
                IN  WindowSlots(mmd) =
                      {ns_[r].nodes[n].offset :
                         n \in {m \in FarMe(r, il) :
                                  ns_[r].nodes[ns_[r].nodes[m].parent].rank = mmd.rank}}
           /\ \A i \in DOMAIN ns_[r].levels[il].kids :
                LET mmd == ns_[r].levels[il].kids[i]
                IN  WindowSlots(mmd) =
                      {ns_[r].nodes[n].offset :
                         n \in {m \in FarKids(r, il) : ns_[r].nodes[m].rank = mmd.rank}}
           /\ \A n \in FarMe(r, il) :
                \E i \in DOMAIN ns_[r].levels[il].me :
                  ns_[r].levels[il].me[i].rank = ns_[r].nodes[ns_[r].nodes[n].parent].rank
           /\ \A n \in FarKids(r, il) :
                \E i \in DOMAIN ns_[r].levels[il].kids :
                  ns_[r].levels[il].kids[i].rank = ns_[r].nodes[n].rank
      /\ \A x, y \in AllWindows(r) :
           x # y => WindowSlots(ns_[r].levels[x[2]][x[1]][x[3]])
                      \cap WindowSlots(ns_[r].levels[y[2]][y[1]][y[3]]) = {}
      /\ \A x \in AllWindows(r) : \A n \in DOMAIN ns_[r].nodes :
           (/\ ns_[r].nodes[n].rank = r
            /\ (ns_[r].nodes[n].parent = Null
                \/ ns_[r].nodes[ns_[r].nodes[n].parent].rank = r)) =>
             ns_[r].nodes[n].offset \notin WindowSlots(ns_[r].levels[x[2]][x[1]][x[3]])

\* A rank with a window of two slots and, in the same NodeSets, a node
\* exchanged locally.
C31_Witness ==
  \E r \in Ranks :
    /\ Returned(r)
    /\ \E x \in AllWindows(r) : ns_[r].levels[x[2]][x[1]][x[3]].size >= 2
    /\ \E n \in DOMAIN ns_[r].nodes :
         /\ ns_[r].nodes[n].rank = r /\ ns_[r].nodes[n].parent # Null
         /\ ns_[r].nodes[ns_[r].nodes[n].parent].rank = r

\* C32: the owner holds the first kid.  In a NodeSets analyze has returned on
\* rank r every owned node with kids has its first kid on rank r, so that at
\* most one kid is on another rank and it is the second one, and every owned
\* node whose parent is on another rank is the second kid of that parent in
\* the tree.
C32_OwnerHoldsFirstKid ==
  \A r \in Ranks :
    Returned(r) =>
      \A n \in DOMAIN ns_[r].nodes :
        ns_[r].nodes[n].rank = r =>
          /\ ns_[r].nodes[n].nkids > 0 =>
               /\ ns_[r].nodes[ns_[r].nodes[n].kids[1]].rank = r
               /\ RankedTree[tree[n].kids[1]].rank = r
               /\ \A k \in DOMAIN ns_[r].nodes[n].kids :
                    ns_[r].nodes[ns_[r].nodes[n].kids[k]].rank # r => k = 2
          /\ (ns_[r].nodes[n].parent # Null
              /\ ns_[r].nodes[ns_[r].nodes[n].parent].rank # r) =>
               /\ tree[tree[n].parent].nkids = 2
               /\ tree[tree[n].parent].kids[2] = n

\* A rank that owns a node with its second kid on another rank and a node
\* whose parent is on another rank.
C32_Witness ==
  \E r \in Ranks :
    /\ Returned(r)
    /\ \E n, m \in DOMAIN ns_[r].nodes :
         /\ ns_[r].nodes[n].rank = r /\ ns_[r].nodes[n].nkids = 2
         /\ ns_[r].nodes[ns_[r].nodes[n].kids[2]].rank # r
         /\ ns_[r].nodes[m].rank = r /\ ns_[r].nodes[m].parent # Null
         /\ ns_[r].nodes[ns_[r].nodes[m].parent].rank # r

\* ------------------------------------------------------------------------
\* Properties of the values run() computes (specification SpecRun).

\* The cells of the tree.
Cells == 0..(ncells - 1)

\* The least and the greatest of a nonempty set of numbers.
MinOf(S) == CHOOSE x \in S : \A y \in S : x <= y
MaxOf(S) == CHOOSE x \in S : \A y \in S : x >= y

\* A sum of nonnegative Reals that is computed without rounding, in whatever
\* order the terms are added.
Exact(total) == total <= 2^MantBits

\* The L2R record of the root of the tree on the rank that owns it.
RootL2R ==
  RecAt(buf[RootRank].l2r, ns_[RootRank].nodes[1].offset, l2rndps(md_[RootRank]))

\* The sum over all cells of the caller's value v(ti, c).
CellSum(v(_, _), ti) == SumSeq([k \in 1..ncells |-> v(ti, k - 1)])

\* C33: L2R aggregation.  When the rank that owns the root has finished the
\* leaves-to-root sweep of run(), the root's L2R record holds in slot 0 the
\* sum of rhom over all cells and for each tracer in [bdi+1] the sum of Qm
\* over all cells, in [bdi+3] the sum of Qm_prev when the type has conserve,
\* and in [bdi+0], [bdi+2] the minimum of Qm_min and the maximum of Qm_max
\* over all cells, or their sums when the type is shape-preserving (each sum
\* whenever it is one that is computed without rounding).
C33_L2RAggregation ==
  pc[RootRank].ph = "l2r_lastwait" =>
    LET md == md_[RootRank]
        rec == RootL2R
    IN  /\ Exact(SumSeq(rhom)) => rec[1] = SumSeq(rhom)
        /\ \A ti \in 0..(Len(md.trcr2prob) - 1) :
             LET type == md.trcr2prob[ti + 1]
                 bdi == md.trcr2bl2r[ti + 1]
                 sum_only == HasBit(type, shapepreserve)
             IN  /\ Exact(CellSum(Qm, ti)) => rec[bdi + 2] = CellSum(Qm, ti)
                 /\ (HasBit(type, conserve) /\ Exact(CellSum(Qm_prev, ti))) =>
                      rec[bdi + 4] = CellSum(Qm_prev, ti)
                 /\ IF sum_only
                    THEN /\ Exact(CellSum(Qm_min, ti)) => rec[bdi + 1] = CellSum(Qm_min, ti)
                         /\ Exact(CellSum(Qm_max, ti)) => rec[bdi + 3] = CellSum(Qm_max, ti)
                    ELSE /\ rec[bdi + 1] = MinOf({Qm_min(ti, c) : c \in Cells})
                         /\ rec[bdi + 3] = MaxOf({Qm_max(ti, c) : c \in Cells})

\* run() has returned on rank r.
RunReturned(r) == pc[r].ph \in {"barrier2", "done"}

\* C34: global-bounds propagation.  After run() has returned on a rank, for
\* every tracer whose type is not shape-preserving the R2L record of every
\* leaf the rank owns holds at offsets 1 and 2 the minimum over all cells of
\* the Qm_min given to set_Qm and the maximum over all cells of the Qm_max.
C34_GlobalBounds ==
  \A r \in Ranks :
    RunReturned(r) =>
      \A ti \in 0..(Len(md_[r].trcr2prob) - 1) :
        ~HasBit(md_[r].trcr2prob[ti + 1], shapepreserve) =>
          \A k \in DOMAIN Level0(r) :
            LET rec == RecAt(buf[r].r2l, ns_[r].nodes[Level0(r)[k]].offset,
                             r2lndps(md_[r]))
                bdi == md_[r].trcr2br2l[ti + 1]
            IN  /\ rec[bdi + 2] = MinOf({Qm_min(ti, c) : c \in Cells})
                /\ rec[bdi + 3] = MaxOf({Qm_max(ti, c) : c \in Cells})

\* run() has returned on a rank other than the root's, with a tracer that is
\* not shape-preserving and a cell whose own Qm_max is below the maximum.
C34_Witness ==
  \E r \in Ranks :
    /\ RunReturned(r) /\ r # RootRank
    /\ \E ti \in 0..(Len(md_[r].trcr2prob) - 1) :
         /\ ~HasBit(md_[r].trcr2prob[ti + 1], shapepreserve)
         /\ \E k \in DOMAIN Level0(r) :
              Qm_max(ti, ns_[r].nodes[Level0(r)[k]].id)
                < MaxOf({Qm_max(ti, c) : c \in Cells})

\* Rank q has done the solves of its level L in the run() it is in.
PastSolve(q, L) ==
  \/ pc[q].ph \in {"cleanup", "barrier2", "done"}
  \/ pc[q].ph \in {"r2l_recv", "r2l_wait"} /\ pc[q].il < L

\* The nodes with kids of level il of rank r: those the solve step of the
\* level calls solve_node_problem for.
SolvedAt(r, il) ==
  {n \in Range(ns_[r].levels[il].nodes) : ns_[r].nodes[n].nkids > 0}

\* C35: solve ordering.  The step of run() that solves the nodes of a level
\* is taken on the rank that owns them, for nodes with kids in the tree, and
\* when it is taken the parent of each of them has been solved in this run():
\* the node is the root (fixed up at the end of the sweep before), or its
\* parent is in a higher level of the same rank, or the rank of its parent
\* has done the solves of the parent's level.
C35_SolveOrdering ==
  [][\A r \in Ranks :
       (pc[r].ph = "r2l_wait" /\ pc'[r] # pc[r]) =>
         \A n \in SolvedAt(r, pc[r].il) :
           /\ RankedTree[n].rank = r /\ tree[n].nkids > 0
           /\ n # 1 =>
                LET p == tree[n].parent
                    q == RankedTree[p].rank
                IN  /\ LevelsOf(q, p) # {}
                    /\ \A L \in LevelsOf(q, p) :
                         IF q = r THEN L > pc[r].il ELSE PastSolve(q, L)]_vars

\* ------------------------------------------------------------------------
\* Properties of init_tree (specification SpecAnalyze).

\* A valid tree of n cells: parent pointers right, two kids or none, and the
\* leaves' cellidx the numbers 0..n-1, each once.
ValidTree(t, n) ==
  /\ ~BadParent(t)
  /\ \A i \in DOMAIN t : t[i].nkids \in {0, 2}
  /\ Cardinality(LeafIdxs(t)) = n
  /\ {t[i].cellidx : i \in LeafIdxs(t)} = 0..(n - 1)

\* The nodes with kids below node i (i included), in post-order.
RECURSIVE PostOrder(_, _)
PostOrder(t, i) ==
  IF t[i].nkids = 0 THEN <<>>
  ELSE PostOrder(t, t[i].kids[1]) \o PostOrder(t, t[i].kids[2]) \o <<i>>

\* The leftmost leaf below node i.
RECURSIVE LeftmostLeaf(_, _)
LeftmostLeaf(t, i) == IF t[i].nkids = 0 THEN i ELSE LeftmostLeaf(t, t[i].kids[1])

\* The id and the rank node i of the tree should have.
NodeId(i) ==
  IF tree[i].nkids = 0 THEN tree[i].cellidx
  ELSE ncells - 1 + CHOOSE k \in DOMAIN PostOrder(tree, 1) : PostOrder(tree, 1)[k] = i

NodeRank(i) == tree[LeftmostLeaf(tree, i)].rank

\* C36: node identity after init_tree.  For a valid tree of ncells leaves,
\* in the NodeSets analyze has returned on any rank every node has the id
\* and the rank its tree node should have: a node with kids the id ncells,
\* ncells + 1, ... by its place in post-order and the rank of its leftmost
\* leaf; the ids of the tree's nodes are pairwise distinct; and two ranks
\* hold the same id and rank for a node both have.
C36_NodeIdentity ==
  ValidTree(tree, ncells) =>
    /\ \A r \in Ranks :
         Returned(r) =>
           \A n \in DOMAIN ns_[r].nodes :
             ns_[r].nodes[n].id = NodeId(n) /\ ns_[r].nodes[n].rank = NodeRank(n)
    /\ \A i, j \in DOMAIN tree : i # j => NodeId(i) # NodeId(j)
    /\ \A r, q \in Ranks :
         (Returned(r) /\ Returned(q)) =>
           \A n \in DOMAIN ns_[r].nodes \cap DOMAIN ns_[q].nodes :
             /\ ns_[r].nodes[n].id = ns_[q].nodes[n].id
             /\ ns_[r].nodes[n].rank = ns_[q].nodes[n].rank

\* Two ranks have analysed a valid tree of four leaves and both hold a node
\* with kids that is not the root.
C36_Witness ==
  /\ ValidTree(tree, ncells) /\ ncells = 4
  /\ \E r, q \in Ranks :
       /\ r # q /\ Returned(r) /\ Returned(q)
       /\ \E n \in DOMAIN ns_[r].nodes \cap DOMAIN ns_[q].nodes :
            n # 1 /\ tree[n].nkids = 2 /\ ns_[r].nodes[n].id > ncells

\* ------------------------------------------------------------------------
\* The tree over a 1-D mesh (namespace oned; specification SpecOned).

\* The largest mesh.
MaxMeshCells == 12

\* Mesh::ParallelDecomp.
ParallelDecomp == {"contiguous", "pseudorandom"}

\* Mesh::init.
Mesh(nc, nranks, parallel_decomp) ==
  [nc_ |-> nc, nranks_ |-> nranks, pd_ |-> parallel_decomp]

\* Mesh::rank for the contiguous decomposition without the std::min.
Mesh_rank_nomin(m, ci) ==
  IF m.pd_ = "contiguous"
  THEN ci \div (m.nc_ \div m.nranks_)
  ELSE LET chunk == ci \div m.nranks_ IN (ci + chunk) % m.nranks_

\* Mesh::rank.
Mesh_rank(m, ci) ==
  IF m.pd_ = "contiguous"
  THEN Min(m.nranks_ - 1, ci \div (m.nc_ \div m.nranks_))
  ELSE LET chunk == ci \div m.nranks_ IN (ci + chunk) % m.nranks_

\* oned::make_tree(m, cs, ce, parent, imbalanced); n is the address of the
\* node it makes, the index of the node in the sequence returned for the
\* root.
RECURSIVE make_tree(_, _, _, _, _, _)
make_tree(m, cs, ce, parent, imbalanced, n) ==
  LET cn == ce - cs
      cn0 == IF imbalanced /\ cn > 2 THEN cn \div 3 ELSE cn \div 2
  IN  IF cn = 1 THEN << TreeNode(Mesh_rank(m, cs), 0, <<>>, parent, cs) >>
      ELSE LET kid0 == make_tree(m, cs, cs + cn0, n, imbalanced, n + 1)
               kid1 == make_tree(m, cs + cn0, ce, n, imbalanced, n + 1 + Len(kid0))
           IN  << TreeNode(-1, 2, <<n + 1, n + 1 + Len(kid0)>>, parent, -1) >>
               \o kid0 \o kid1

\* test::mark_cells from node i of t: cells[c + 1] counts the leaves with
\* cellidx c.
RECURSIVE mark_cells(_, _, _)
mark_cells(t, i, cells) ==
  IF t[i].nkids = 0 THEN [cells EXCEPT ![t[i].cellidx + 1] = @ + 1]
  ELSE mark_cells(t, t[i].kids[2], mark_cells(t, t[i].kids[1], cells))

\* No mesh, no tree.
InitOned ==
  /\ tree = <<>> /\ ncells = 0
  /\ heap = [r \in Ranks |-> "up"] /\ eager = FALSE
  /\ InitRanks
  /\ tracers_ = <<>> /\ rhom = <<>>

\* Mesh m(nc, p, parallel_decomp) with nranks processes; the assertion of
\* Mesh::init holds.
OnedMesh(nc, nranks, parallel_decomp) ==
  /\ call = NoCall
  /\ cedr_assert(nranks <= nc)
  /\ call' = Mesh(nc, nranks, parallel_decomp)
  /\ UNCHANGED <<trial, bfb, qvars, tree, ncells, heap, eager, ns_, pc, buf,
                 req, chan, mpi_err, nerr, my_nleaves, glbl_nleaves>>

\* tree = make_tree(m, imbalanced).
OnedMakeTree(imbalanced) ==
  /\ "nc_" \in DOMAIN call /\ tree = <<>>
  /\ tree' = make_tree(call, 0, call.nc_, Null, imbalanced, 1)
  /\ ncells' = call.nc_
  /\ UNCHANGED <<xvars, qvars, heap, eager, ns_, pc, buf, req, chan, mpi_err,
                 nerr, my_nleaves, glbl_nleaves>>

\* test::unittest on rank r for the tree made: the number of cells not
\* marked exactly once.
OnedUnittest(r) ==
  /\ tree # <<>> /\ pc[r].ph = "new"
  /\ LET cells == mark_cells(tree, 1, [c \in 1..ncells |-> 0]) IN
       nerr' = [nerr EXCEPT ![r] = Cardinality({c \in 1..ncells : cells[c] # 1})]
  /\ pc' = [pc EXCEPT ![r] = At("done", 0)]
  /\ UNCHANGED <<xvars, qvars, tree, ncells, heap, eager, ns_, buf, req, chan,
                 mpi_err, my_nleaves, glbl_nleaves>>

NextOned ==
  \/ \E nc \in 1..MaxMeshCells, nranks \in 1..MaxMeshCells,
         parallel_decomp \in ParallelDecomp : OnedMesh(nc, nranks, parallel_decomp)
  \/ \E imbalanced \in BOOLEAN : OnedMakeTree(imbalanced)
  \/ \E r \in Ranks : OnedUnittest(r)

SpecOned == InitOned /\ [][NextOned]_vars

\* ------------------------------------------------------------------------
\* Properties of the metadata tables (specification SpecDecl).

\* C37: canonical tracer order.  After end_tracer_declarations, bidx2trcr is
\* a permutation of [0, ntracers) and trcr2bidx its inverse, the block
\* indices [prob2trcrptr[p], prob2trcrptr[p+1]) hold exactly the tracers of
\* canonical type p in ascending caller index, and prob2trcrptr[nprobtypes]
\* is the number of tracers.
C37_CanonicalTracerOrder ==
  \A r \in Handles :
    Closed(r) =>
      LET md == md_[r]
          ntracers == Len(tracers_)
      IN  /\ Len(md.bidx2trcr) = ntracers /\ Len(md.trcr2bidx) = ntracers
          /\ Range(md.bidx2trcr) = 0..(ntracers - 1)
          /\ \A bi \in 0..(ntracers - 1) : md.trcr2bidx[md.bidx2trcr[bi + 1] + 1] = bi
          /\ \A ti \in 0..(ntracers - 1) : md.bidx2trcr[md.trcr2bidx[ti + 1] + 1] = ti
          /\ md.prob2trcrptr[1] = 0
          /\ md.prob2trcrptr[nprobtypes + 1] = ntracers
          /\ \A pi \in 0..(nprobtypes - 1) :
               LET lo == md.prob2trcrptr[pi + 1]
                   hi == md.prob2trcrptr[pi + 2]
               IN  /\ lo <= hi
                   /\ {md.bidx2trcr[bi + 1] : bi \in lo..(hi - 1)} =
                        {ti \in 0..(ntracers - 1) :
                           WithConsistent(tracers_[ti + 1]) = problem_type_[pi + 1]}
                   /\ \A bi, bj \in lo..(hi - 1) :
                        bi < bj => md.bidx2trcr[bi + 1] < md.bidx2trcr[bj + 1]

\* A closed handle with three tracers, two of one type with a tracer of an
\* earlier type declared between them.
C37_Witness ==
  \E r \in Handles :
    /\ Closed(r) /\ Len(tracers_) = 3
    /\ md_[r].bidx2trcr = <<1, 0, 2>>
    /\ WithConsistent(tracers_[1]) = WithConsistent(tracers_[3])

\* The sum of f over the tracers ti onward of the list trcrs.
RECURSIVE SumOver(_, _, _)
SumOver(f(_), trcrs, ti) ==
  IF ti > Len(trcrs) THEN 0 ELSE f(trcrs[ti]) + SumOver(f, trcrs, ti + 1)

L2RSize(mask) == IF HasBit(mask, conserve) THEN 4 ELSE 3
R2LSize(mask) == IF HasBit(mask, shapepreserve) THEN 1 ELSE 3

\* The blocks [start[t], start[t] + size(t)) of the tracers are pairwise
\* disjoint and cover lo..(hi - 1).
Tiles(start, size(_), trcrs, lo, hi) ==
  LET block(t) == start[t]..(start[t] + size(trcrs[t]) - 1)
  IN  /\ \A t, u \in DOMAIN trcrs : t # u => block(t) \cap block(u) = {}
      /\ UNION {block(t) : t \in DOMAIN trcrs} = lo..(hi - 1)

\* C38: record layout.  After end_tracer_declarations, the L2R width per
\* slot is 1 + the sum over the tracers of (4 if conserve else 3) and the
\* R2L width is the sum of (1 if shapepreserve else 3); the tracers' L2R
\* blocks are pairwise disjoint and cover [1, L2R width), their R2L blocks
\* are pairwise disjoint and cover [0, R2L width); l2r_data and r2l_data
\* have nslots times these widths.
C38_RecordLayout ==
  \A r \in Handles :
    Closed(r) =>
      LET md == md_[r]
          W == md.prob2bl2r[nprobtypes + 1]
          V == md.prob2br2l[nprobtypes + 1]
      IN  /\ md.trcr2prob = [t \in DOMAIN tracers_ |-> WithConsistent(tracers_[t])]
          /\ W = 1 + SumOver(L2RSize, tracers_, 1)
          /\ V = SumOver(R2LSize, tracers_, 1)
          /\ Tiles(md.trcr2bl2r, L2RSize, tracers_, 1, W)
          /\ Tiles(md.trcr2br2l, R2LSize, tracers_, 0, V)
          /\ Len(buf[r].l2r) = ns_[r].nslots * W
          /\ Len(buf[r].r2l) = ns_[r].nslots * V

\* A closed handle with slots and three tracers of different block sizes,
\* the second of which is stored before the first.
C38_Witness ==
  \E r \in Handles :
    /\ Closed(r) /\ Len(tracers_) = 3 /\ ns_[r].nslots > 1
    /\ HasBit(tracers_[1], conserve) /\ ~HasBit(tracers_[2], conserve)
    /\ HasBit(tracers_[2], shapepreserve) /\ ~HasBit(tracers_[3], shapepreserve)
    /\ md_[r].trcr2bl2r[2] < md_[r].trcr2bl2r[1]

\* ------------------------------------------------------------------------
\* Properties of the queries (specification SpecQuery).

\* The caller's last call was get_problem_type.
Queried == "tracer_idx" \in DOMAIN call

\* C39: get_problem_type(tracer_idx) raises an error for every tracer_idx
\* outside [0, get_num_tracers()), the number of tracers included, and
\* returns the canonical type only for the indices of declared tracers.
C39_IndexBounds ==
  \A r \in Handles :
    (Closed(r) /\ Queried) =>
      LET declared == 0..(get_num_tracers(md_[r]) - 1) IN
      /\ call.tracer_idx \notin declared => call.threw
      /\ ~call.threw =>
           /\ call.tracer_idx \in declared
           /\ call.ret = WithConsistent(tracers_[call.tracer_idx + 1])

\* ------------------------------------------------------------------------
\* Properties of the tree over a 1-D mesh (specification SpecOned).

\* C40: 1-D test tree construction.  For a mesh of nc >= 1 cells on
\* nranks <= nc ranks, the tree make_tree returns, balanced or imbalanced and
\* for either decomposition, has every cell index in [0, nc) as the cellidx
\* of exactly one leaf, every node that is not a leaf has exactly two kids
\* whose parent is that node, the root has no parent, and each leaf's rank is
\* in [0, nranks).
C40_OnedTree ==
  tree # <<>> =>
    /\ \A c \in 0..(call.nc_ - 1) :
         Cardinality({i \in LeafIdxs(tree) : tree[i].cellidx = c}) = 1
    /\ \A i \in LeafIdxs(tree) : tree[i].cellidx \in 0..(call.nc_ - 1)
    /\ \A i \in DOMAIN tree \ LeafIdxs(tree) :
         /\ tree[i].nkids = 2 /\ Len(tree[i].kids) = 2
         /\ tree[i].kids[1] # tree[i].kids[2]
         /\ \A k \in 1..2 :
              /\ tree[i].kids[k] \in DOMAIN tree
              /\ tree[tree[i].kids[k]].parent = i
    /\ tree[1].parent = Null
    /\ \A i \in DOMAIN tree \ {1} :
         /\ tree[i].parent \in DOMAIN tree
         /\ \E k \in 1..2 : tree[tree[i].parent].kids[k] = i
    /\ \A i \in LeafIdxs(tree) : tree[i].rank \in 0..(call.nranks_ - 1)

\* An imbalanced tree (the root's first kid holds a third of the cells) over
\* a mesh whose cells do not divide evenly among its ranks, the last rank
\* holding the cells left over.
C40_Witness ==
  /\ tree # <<>> /\ call.nc_ = 11 /\ call.nranks_ = 3 /\ call.pd_ = "contiguous"
  /\ tree[1].nkids = 2 /\ tree[1].kids[2] = 7
  /\ Cardinality({i \in LeafIdxs(tree) : tree[i].rank = 2}) = 5
  /\ \E r \in Ranks : pc[r].ph = "done" /\ nerr[r] = 0

====
